---- MODULE Spec2Model ----
(***************************************************************************)
(* MTC (Merkle Tree Checksum): the hashing engine (engine.go), the         *)
(* comparator (diff.go) and the exclusion matcher (internal/ignore).       *)
(*                                                                         *)
(* Strings are sequences of one-character strings, as Go strings are       *)
(* sequences of bytes: "/a" is <<"/", "a">>.  Paths are such strings, in   *)
(* the clean absolute form filepath.Abs returns on a Unix system.          *)
(***************************************************************************)
EXTENDS Integers, Sequences, FiniteSets, TLC

VARIABLES fs, engine, last, run

vars == <<fs, engine, last, run>>

----------------------------------------------------------------------------
(* Bytes and strings                                                       *)

\* The bytes of the model in ascending byte order (ASCII).
AlphaSeq == <<" ", "!", "#", "*", ".", "/", "?", "a", "b", "c">>

Alphabet == {AlphaSeq[i] : i \in 1..Len(AlphaSeq)}

\* The byte value order of a character: its place in AlphaSeq.
Ord(c) == CHOOSE i \in 1..Len(AlphaSeq) : AlphaSeq[i] = c

\* Go's s < t on strings: byte-wise lexicographic order.
RECURSIVE StrLess(_, _)
StrLess(s, t) ==
  IF t = <<>> THEN FALSE
  ELSE IF s = <<>> THEN TRUE
  ELSE IF Head(s) # Head(t) THEN Ord(Head(s)) < Ord(Head(t))
  ELSE StrLess(Tail(s), Tail(t))

\* strings.HasPrefix
HasPrefix(s, prefix) ==
  /\ Len(prefix) <= Len(s)
  /\ SubSeq(s, 1, Len(prefix)) = prefix

\* strings.HasSuffix
HasSuffix(s, suffix) ==
  /\ Len(suffix) <= Len(s)
  /\ SubSeq(s, Len(s) - Len(suffix) + 1, Len(s)) = suffix

\* strings.Contains(s, c) for a one-byte c
Contains(s, c) == \E i \in 1..Len(s) : s[i] = c

\* strings.TrimSpace over the one whitespace byte of the alphabet
RECURSIVE TrimLeft(_)
TrimLeft(s) == IF s # <<>> /\ Head(s) = " " THEN TrimLeft(Tail(s)) ELSE s

RECURSIVE TrimRight(_)
TrimRight(s) ==
  IF s # <<>> /\ s[Len(s)] = " " THEN TrimRight(SubSeq(s, 1, Len(s) - 1)) ELSE s

TrimSpace(s) == TrimRight(TrimLeft(s))

\* strings.Split(s, "/"): always at least one segment; "" gives <<"">>.
RECURSIVE SplitFrom(_, _)
SplitFrom(s, cur) ==
  IF s = <<>> THEN <<cur>>
  ELSE IF Head(s) = "/" THEN <<cur>> \o SplitFrom(Tail(s), <<>>)
  ELSE SplitFrom(Tail(s), Append(cur, Head(s)))

Split(s) == SplitFrom(s, <<>>)

\* strings.Join(segs, "/")
RECURSIVE JoinSegs(_)
JoinSegs(segs) ==
  IF segs = <<>> THEN <<>>
  ELSE IF Len(segs) = 1 THEN segs[1]
  ELSE segs[1] \o <<"/">> \o JoinSegs(Tail(segs))

----------------------------------------------------------------------------
(* path/filepath on clean absolute Unix paths                              *)

RootDir == <<"/">>

\* The names of a clean absolute path: "/" has none, "/a/b" has a and b.
PathSegs(p) == IF p = RootDir THEN <<>> ELSE Tail(Split(p))

\* filepath.Join(dir, name) for a clean absolute dir and a plain name
Join(dir, name) ==
  IF dir = RootDir THEN <<"/">> \o name ELSE dir \o <<"/">> \o name

\* filepath.Base
Base(p) == IF p = RootDir THEN RootDir ELSE LET s == Split(p) IN s[Len(s)]

\* filepath.Dir
Dir(p) ==
  LET segs == PathSegs(p)
  IN IF Len(segs) <= 1 THEN RootDir
     ELSE <<"/">> \o JoinSegs(SubSeq(segs, 1, Len(segs) - 1))

\* The length of the longest common prefix of two segment lists.
RECURSIVE CommonLen(_, _)
CommonLen(a, b) ==
  IF a # <<>> /\ b # <<>> /\ Head(a) = Head(b)
  THEN 1 + CommonLen(Tail(a), Tail(b))
  ELSE 0

\* filepath.Rel(basepath, targpath) for clean absolute paths: never fails;
\* "." when equal, else one ".." per remaining base name, then the
\* remaining target names.
Rel(basepath, targpath) ==
  LET b == PathSegs(basepath)
      t == PathSegs(targpath)
      k == CommonLen(b, t)
      ups == [i \in 1..(Len(b) - k) |-> <<".", ".">>]
      rest == SubSeq(t, k + 1, Len(t))
  IN IF basepath = targpath THEN <<".">> ELSE JoinSegs(ups \o rest)

----------------------------------------------------------------------------
(* internal/ignore: the exclusion matcher                                  *)

globDoubleStar == <<"*", "*">>

\* The body of NewPatternMatcher's loop for one kept pattern p (trimmed).
CompilePattern(p) ==
  LET isNegation == HasPrefix(p, <<"!">>)
      p1 == IF isNegation THEN Tail(p) ELSE p
      isDirOnly == HasSuffix(p1, <<"/">>)
      p2 == IF isDirOnly THEN SubSeq(p1, 1, Len(p1) - 1) ELSE p1
  IN [raw |-> p,
      isDirOnly |-> isDirOnly,
      isNegation |-> isNegation,
      segments |-> Split(p2),
      hasGlob |-> Contains(p2, "*") \/ Contains(p2, "?")]

\* NewPatternMatcher: the compiled patterns, blank lines and comments skipped.
RECURSIVE NewPatternMatcher(_)
NewPatternMatcher(patterns) ==
  IF patterns = <<>> THEN <<>>
  ELSE LET p == TrimSpace(Head(patterns))
           rest == NewPatternMatcher(Tail(patterns))
       IN IF p = <<>> \/ HasPrefix(p, <<"#">>) THEN rest
          ELSE <<CompilePattern(p)>> \o rest

\* matchGlob with a "*" that takes at least one byte of s when more of
\* the pattern follows it.
RECURSIVE matchGlobStarTakesOne(_, _)
matchGlobStarTakesOne(s, pattern) ==
  IF pattern # <<>> /\ s # <<>>
  THEN IF Head(pattern) = "*" /\ Len(pattern) = 1 THEN TRUE
       ELSE IF Head(pattern) # "*" /\ Head(pattern) # "?"
               /\ Head(pattern) # Head(s)
       THEN FALSE
       ELSE \E i \in (IF Head(pattern) = "*" THEN 2..(Len(s) + 1) ELSE {2}) :
              matchGlobStarTakesOne(SubSeq(s, i, Len(s)), Tail(pattern))
  ELSE /\ \A i \in 1..Len(pattern) : pattern[i] = "*"
       /\ s = <<>>

\* matchGlob(s, pattern).  The loop advances patternIdx and strIdx together
\* and only ever looks at the two suffixes from them on, so the loop at
\* (patternIdx, strIdx) is matchGlob of the two suffixes.
RECURSIVE matchGlob(_, _)
matchGlob(s, pattern) ==
  IF pattern # <<>> /\ s # <<>>
  THEN IF Head(pattern) = "*" /\ Len(pattern) = 1 THEN TRUE
       ELSE IF Head(pattern) # "*" /\ Head(pattern) # "?"
               /\ Head(pattern) # Head(s)
       THEN FALSE
       ELSE \E i \in (IF Head(pattern) = "*" THEN 1..(Len(s) + 1) ELSE {2}) :
              matchGlob(SubSeq(s, i, Len(s)), Tail(pattern))
  ELSE /\ \A i \in 1..Len(pattern) : pattern[i] = "*"
       /\ s = <<>>

\* matchSegment: one path segment against one pattern segment.
matchSegment(pathSeg, patSeg) ==
  \/ patSeg = pathSeg
  \/ /\ Contains(patSeg, "*") \/ Contains(patSeg, "?")
     /\ matchGlob(pathSeg, patSeg)

\* matchSegmentsAt: the pattern segments match at some offset of the path.
matchSegmentsAt(pathSegs, patSegs) ==
  IF Len(patSegs) = 0 THEN TRUE
  ELSE IF Len(pathSegs) = 0 THEN FALSE
  ELSE \E i \in 0..(Len(pathSegs) - Len(patSegs)) :
         \A j \in 1..Len(patSegs) : matchSegment(pathSegs[i + j], patSegs[j])

\* matchSegments with the prefix of a pattern that ends in "**" tried at
\* the start of the path only.
matchSegmentsAnchored(p, pathSegments) ==
  LET patSegs == p.segments
      leading == Len(patSegs) > 0 /\ patSegs[1] = globDoubleStar
      trailing == Len(patSegs) > 0 /\ patSegs[Len(patSegs)] = globDoubleStar
      prefix == SubSeq(patSegs, 1, Len(patSegs) - 1)
  IN IF leading /\ Len(patSegs) = 1 THEN TRUE
     ELSE IF leading
     THEN \E i \in 0..Len(pathSegments) :
            matchSegmentsAt(SubSeq(pathSegments, i + 1, Len(pathSegments)),
                            Tail(patSegs))
     ELSE IF trailing
     THEN /\ Len(prefix) <= Len(pathSegments)
          /\ \A j \in 1..Len(prefix) : matchSegment(pathSegments[j], prefix[j])
     ELSE matchSegmentsAt(pathSegments, patSegs)

\* pattern.matchSegments: a leading "**" tries the rest of the pattern on
\* every suffix of the path, a trailing "**" is dropped, and every case
\* ends in matchSegmentsAt.
matchSegments(p, pathSegments) ==
  LET patSegs == p.segments
      leading == Len(patSegs) > 0 /\ patSegs[1] = globDoubleStar
      trailing == Len(patSegs) > 0 /\ patSegs[Len(patSegs)] = globDoubleStar
      rest == IF leading THEN Tail(patSegs)
              ELSE IF trailing THEN SubSeq(patSegs, 1, Len(patSegs) - 1)
              ELSE patSegs
      starts == IF leading THEN 0..Len(pathSegments) ELSE {0}
  IN IF leading /\ Len(patSegs) = 1 THEN TRUE
     ELSE \E i \in starts :
            matchSegmentsAt(SubSeq(pathSegments, i + 1, Len(pathSegments)), rest)

\* pattern.Match
PatternMatch(p, pathSegments, isDir) ==
  IF p.isDirOnly /\ ~isDir THEN FALSE
  ELSE IF ~p.hasGlob /\ Len(p.segments) = 1
  THEN \E i \in 1..Len(pathSegments) : pathSegments[i] = p.segments[1]
  ELSE matchSegments(p, pathSegments)

\* PatternMatcher.Match's loop from the first of patterns on: flags are
\* matched and matchedNegation so far, and the loop returns them as they
\* are after the last pattern.
RECURSIVE matchLoop(_, _, _, _)
matchLoop(patterns, pathSegments, isDir, flags) ==
  IF patterns = <<>> THEN flags
  ELSE LET pat == Head(patterns)
           hit == PatternMatch(pat, pathSegments, isDir)
       IN matchLoop(Tail(patterns), pathSegments, isDir,
                    [matched |-> flags.matched \/ (hit /\ ~pat.isNegation),
                     matchedNegation |->
                       flags.matchedNegation \/ (hit /\ pat.isNegation)])

\* A Match in which the last pattern that matches decides, as in
\* .gitignore: a later exclusion overrides an earlier negation.
PatternMatcherMatchLastWins(patterns, path, isDir) ==
  LET pathSegments == Split(path)
      hits == {i \in 1..Len(patterns) :
                 PatternMatch(patterns[i], pathSegments, isDir)}
  IN /\ hits # {}
     /\ ~patterns[CHOOSE i \in hits : \A j \in hits : j <= i].isNegation

\* PatternMatcher.Match
PatternMatcherMatch(patterns, path, isDir) ==
  LET flags == matchLoop(patterns, Split(path), isDir,
                         [matched |-> FALSE, matchedNegation |-> FALSE])
  IN IF flags.matchedNegation THEN FALSE ELSE flags.matched

\* The engine's matcher field: nil (NewEngine, NewEngineWithWorkers), the
\* noOpMatcher NewMatcher returns for zero patterns, or a PatternMatcher.
NilMatcher == [kind |-> "nil", patterns |-> <<>>]

NoOpMatcher == [kind |-> "noop", patterns |-> <<>>]

\* NewMatcher with loadIgnoreFile = false and no custom ignore file.
NewMatcher(patterns) ==
  IF Len(patterns) = 0 THEN NoOpMatcher
  ELSE [kind |-> "pattern", patterns |-> NewPatternMatcher(patterns)]

\* Matcher.Match through the interface.
MatcherMatch(m, path, isDir) ==
  IF m.kind = "pattern" THEN PatternMatcherMatch(m.patterns, path, isDir)
  ELSE FALSE

----------------------------------------------------------------------------
(* The filesystem and the environment of one call                          *)

\* The most entries (besides "/") the filesystem holds.
MaxNodes == 2

nameA == <<"a">>

nameB == <<"b">>

nameDotsC == <<".", ".", "c">>

\* Entry names; "..c" is an ordinary name that starts with two dots.
Names == {nameA, nameB, nameDotsC}

\* File contents and symlink texts: the same byte strings serve as both, and
\* as a link text each is the absolute path of an entry of "/".
Texts == {Join(RootDir, nameA), Join(RootDir, nameB)}

Depth1 == {Join(RootDir, n) : n \in Names}

Depth2 == {Join(d, n) : d \in Depth1, n \in Names}

\* Every path the model can create.
Paths == Depth1 \cup Depth2

\* A path of no entry, for calls on a path that does not exist.
MissingPath == <<"/", "c">>

NodeTypes == {"file", "dir", "symlink", "pipe"}

\* An entry: data is a file's content or a symlink's text.
Node(type, data) == [type |-> type, data |-> data]

\* What the environment does during one call: the order in which directories
\* enumerate their entries (perm, a permutation of Names), and at most one
\* fault on one path: "stat" (lstat fails), "io" (the directory listing, the
\* open or the readlink fails), "read" (a read of the open file fails),
\* "trunc" (the file loses its last byte between its stat and its read).
FaultKinds == {"none", "stat", "io", "read", "trunc"}

NoFault == [kind |-> "none", path |-> RootDir]

Fault(kind, path) == [kind |-> kind, path |-> path]

Perms == {q \in [1..Cardinality(Names) -> Names] :
            \A i, j \in 1..Cardinality(Names) : q[i] = q[j] => i = j}

Env(perm, fault) == [perm |-> perm, fault |-> fault]

FaultAt(io, kind, path) == io.fault.kind = kind /\ io.fault.path = path

\* os.Lstat succeeds: the entry exists and the stat does not fail.
LstatOk(f, io, path) == path \in DOMAIN f /\ ~FaultAt(io, "stat", path)

\* FileInfo.Size(): the size the metadata reports at the time of the stat.
StatSize(f, path) == Len(f[path].data)

\* The bytes the reads of an open file yield until io.EOF.
ReadAll(f, io, path) ==
  LET data == f[path].data
  IN IF FaultAt(io, "trunc", path) /\ data # <<>>
     THEN SubSeq(data, 1, Len(data) - 1)
     ELSE data

\* os.ReadDir before the caller's sort: the names in enumeration order.
ReadDirNames(f, io, path) ==
  SelectSeq(io.perm, LAMBDA n : Join(path, n) \in DOMAIN f)

\* The filesystem after the call: a truncated file stays truncated.
FsAfter(f, io) ==
  IF io.fault.kind = "trunc" /\ io.fault.path \in DOMAIN f
     /\ f[io.fault.path].type = "file"
  THEN [f EXCEPT ![io.fault.path].data = ReadAll(f, io, io.fault.path)]
  ELSE f

----------------------------------------------------------------------------
(* internal/merkle: the engine                                             *)

DefaultMaxWorkers == 8

\* blake3 as a collision-free function of the bytes written: the digest of
\* bytes is bytes between two marks that no file, link text or name holds,
\* so that digests written one after the other parse back uniquely, as
\* 32-byte digests do.
Blake3Sum(bytes) == <<"[">> \o bytes \o <<"]">>

Result(hash, size) == [Hash |-> hash, Size |-> size]

\* Result{}: a nil hash and size 0.
ZeroResult == Result(<<>>, 0)

\* A call's return values (Result, error); err = "" is a nil error.
Ok(res) == [err |-> "", res |-> res]

Failed(err) == [err |-> err, res |-> ZeroResult]

\* blake3.New() followed by h.Sum(nil): the hash of zero bytes, size 0.
EmptyResult == Result(Blake3Sum(<<>>), 0)

NoEngine ==
  [made |-> FALSE, maxWorkers |-> 0, matcher |-> NilMatcher, rootPath |-> <<>>]

NewEngine ==
  [made |-> TRUE, maxWorkers |-> DefaultMaxWorkers, matcher |-> NilMatcher,
   rootPath |-> <<>>]

NewEngineWithWorkers(maxWorkers) ==
  [made |-> TRUE,
   maxWorkers |-> IF maxWorkers < 1 THEN DefaultMaxWorkers ELSE maxWorkers,
   matcher |-> NilMatcher,
   rootPath |-> <<>>]

\* NewEngineWithExclusions(maxWorkers, patterns, rootPath, false, "")
NewEngineWithExclusions(maxWorkers, patterns, rootPath) ==
  [made |-> TRUE,
   maxWorkers |-> IF maxWorkers < 1 THEN DefaultMaxWorkers ELSE maxWorkers,
   matcher |-> NewMatcher(patterns),
   rootPath |-> rootPath]

\* hashPath's exclusion test: the relative path, the absolute path and the
\* base name, any match excludes.
excludedPath(e, absPath, isDir) ==
  /\ e.matcher.kind # "nil"
  /\ \E candidate \in {Rel(e.rootPath, absPath), absPath, Base(absPath)} :
       MatcherMatch(e.matcher, candidate, isDir)

\* hashDir's exclusion test of one entry.
excludedEntry(e, path, name, isDir) ==
  LET childPath == Join(path, name)
  IN /\ e.matcher.kind # "nil"
     /\ \E candidate \in {Rel(e.rootPath, childPath), childPath, name} :
          MatcherMatch(e.matcher, candidate, isDir)

\* hashFile's check that the path is within rootPath.
outsideRoot(e, path) ==
  /\ e.rootPath # <<>>
  /\ HasPrefix(Rel(e.rootPath, path), <<".", ".">>)

\* hashFile(path, size)
hashFile(e, f, io, path, size) ==
  IF outsideRoot(e, path) THEN Failed("path outside allowed directory")
  ELSE IF FaultAt(io, "io", path) THEN Failed("failed to open file")
  ELSE IF FaultAt(io, "read", path) THEN Failed("failed to read file")
  ELSE LET content == ReadAll(f, io, path)
           bytesRead == Len(content)
       IN Ok(Result(Blake3Sum(content), size))

\* A symlink branch that resolves the link as os.Stat does: a link whose
\* target is a link again is reported as a loop, a link to a file gives the
\* file's result.
hashPathSymlinkResolved(f, io, absPath) ==
  LET target == f[absPath].data
  IN IF FaultAt(io, "io", absPath) THEN Failed("failed to read symlink")
     ELSE IF target \in DOMAIN f /\ f[target].type = "symlink"
     THEN Failed("circular symlink detected")
     ELSE IF target \in DOMAIN f /\ f[target].type = "file"
     THEN Ok(Result(Blake3Sum(f[target].data), Len(f[target].data)))
     ELSE Ok(Result(Blake3Sum(f[absPath].data), 0))

\* hashPath's symlink branch: the hash of the link text, size 0.
hashPathSymlink(f, io, absPath) ==
  IF FaultAt(io, "io", absPath) THEN Failed("failed to read symlink")
  ELSE Ok(Result(Blake3Sum(f[absPath].data), 0))

\* A symlink branch of hashDir that reads through the link: a link to an
\* existing file gives the file's content hash and size.
hashDirSymlinkFollowed(f, io, childPath) ==
  LET target == f[childPath].data
  IN IF FaultAt(io, "io", childPath) THEN Failed("failed to read symlink")
     ELSE IF target \in DOMAIN f /\ f[target].type = "file"
     THEN Ok(Result(Blake3Sum(f[target].data), Len(f[target].data)))
     ELSE Ok(Result(Blake3Sum(f[childPath].data), 0))

\* hashDir's symlink branch for the entry at childPath.
hashDirSymlink(f, io, childPath) ==
  IF FaultAt(io, "io", childPath) THEN Failed("failed to read symlink")
  ELSE Ok(Result(Blake3Sum(f[childPath].data), 0))

\* sort.Slice(entries, Name(i) < Name(j)) as an insertion sort.
RECURSIVE insertSorted(_, _)
insertSorted(sorted, n) ==
  IF sorted = <<>> THEN <<n>>
  ELSE IF StrLess(n, Head(sorted)) THEN <<n>> \o sorted
  ELSE <<Head(sorted)>> \o insertSorted(Tail(sorted), n)

\* A hashDir that leaves out the sort: the entries stay in listing order.
sortEntriesOmitted(names) == names

RECURSIVE sortEntries(_)
sortEntries(names) ==
  IF names = <<>> THEN <<>>
  ELSE insertSorted(sortEntries(Tail(names)), Head(names))

\* A filter loop that skips special entries only and tests no exclusion.
workItemsUnfiltered(e, f, path, entries) ==
  SelectSeq(entries, LAMBDA n : f[Join(path, n)].type # "pipe")

\* A filter loop that skips excluded files and links but hands excluded
\* directories on, so that hashPath answers for them with the empty result.
workItemsKeepExcludedDirs(e, f, path, entries) ==
  SelectSeq(entries,
            LAMBDA n :
              LET child == f[Join(path, n)]
              IN /\ child.type # "pipe"
                 /\ \/ child.type = "dir"
                    \/ ~excludedEntry(e, path, n, FALSE))

\* hashDir's filter loop: the work items, in the order of the entries.
workItems(e, f, path, entries) ==
  SelectSeq(entries,
            LAMBDA n :
              LET child == f[Join(path, n)]
              IN /\ child.type # "pipe"
                 /\ ~excludedEntry(e, path, n, child.type = "dir"))

\* hashDir's last loop: one hash over the results' digests in order, and
\* the sum of their sizes.
RECURSIVE concatHashes(_)
concatHashes(results) ==
  IF results = <<>> THEN <<>>
  ELSE Head(results).Hash \o concatHashes(Tail(results))

RECURSIVE sumSizes(_)
sumSizes(results) ==
  IF results = <<>> THEN 0
  ELSE Head(results).Size + sumSizes(Tail(results))

combine(results) == Result(Blake3Sum(concatHashes(results)), sumSizes(results))

RECURSIVE hashPath(_, _, _, _, _)
RECURSIVE hashDir(_, _, _, _, _)
RECURSIVE processItems(_, _, _, _, _, _, _)

\* A processing loop that leaves out an item whose hash failed and goes on
\* with the items after it.
processItemsSkipFailed(e, f, io, path, visited, items, results) ==
  IF items = <<>> THEN [err |-> "", results |-> results]
  ELSE LET childPath == Join(path, Head(items))
           child == f[childPath]
           out == IF child.type = "symlink" THEN hashDirSymlink(f, io, childPath)
                  ELSE IF child.type = "dir"
                  THEN hashPath(e, f, io, childPath, visited)
                  ELSE IF FaultAt(io, "stat", childPath)
                  THEN Failed("failed to get info for entry")
                  ELSE hashFile(e, f, io, childPath, StatSize(f, childPath))
       IN processItems(e, f, io, path, visited, Tail(items),
                       IF out.err # "" THEN results
                       ELSE Append(results, out.res))

\* hashDir's processing loop from item i on, results holding the results
\* of the items before it: the first error ends the loop.
processItems(e, f, io, path, visited, items, results) ==
  IF items = <<>> THEN [err |-> "", results |-> results]
  ELSE LET childPath == Join(path, Head(items))
           child == f[childPath]
           out == IF child.type = "symlink" THEN hashDirSymlink(f, io, childPath)
                  ELSE IF child.type = "dir"
                  THEN hashPath(e, f, io, childPath, visited)
                  ELSE IF FaultAt(io, "stat", childPath)
                  THEN Failed("failed to get info for entry")
                  ELSE hashFile(e, f, io, childPath, StatSize(f, childPath))
       IN IF out.err # "" THEN [err |-> out.err, results |-> <<>>]
          ELSE processItems(e, f, io, path, visited, Tail(items),
                            Append(results, out.res))

\* hashDir(path, visited)
hashDir(e, f, io, path, visited) ==
  IF FaultAt(io, "io", path) THEN Failed("failed to read directory")
  ELSE LET entries == sortEntries(ReadDirNames(f, io, path))
           items == workItems(e, f, path, entries)
       IN IF Len(items) = 0 THEN Ok(EmptyResult)
          ELSE LET done == processItems(e, f, io, path, visited, items, <<>>)
               IN IF done.err # "" THEN Failed(done.err)
                  ELSE Ok(combine(done.results))

\* hashPath(path, visited): visited holds the paths of the calls in
\* progress; the deferred Delete removes absPath again when the call
\* returns, so a callee sees visited plus absPath and the caller's set is
\* as before.
hashPath(e, f, io, absPath, visited) ==
  IF absPath \in visited THEN Failed("circular symlink detected")
  ELSE IF ~LstatOk(f, io, absPath) THEN Failed("failed to stat path")
  ELSE LET info == f[absPath]
       IN IF excludedPath(e, absPath, info.type = "dir") THEN Ok(EmptyResult)
          ELSE IF info.type = "symlink" THEN hashPathSymlink(f, io, absPath)
          ELSE IF info.type = "dir"
          THEN hashDir(e, f, io, absPath, visited \cup {absPath})
          ELSE hashFile(e, f, io, absPath, StatSize(f, absPath))

\* Engine.HashPath: the engine after the call (rootPath set if it was
\* empty) and what the call returns, with a fresh visited set.
rootPathAfter(e, path) == IF e.rootPath = <<>> THEN path ELSE e.rootPath

EngineHashPath(e, f, io, path) ==
  LET e2 == [e EXCEPT !.rootPath = rootPathAfter(e, path)]
  IN [engine |-> e2, out |-> hashPath(e2, f, io, path, {})]

----------------------------------------------------------------------------
(* internal/merkle: the comparator                                         *)

noDifferencesMsg == "No differences detected"

NoMessage == [text |-> "", hashA |-> <<>>, sizeA |-> 0, hashB |-> <<>>, sizeB |-> 0]

\* A comparison that takes two results for the same only when their sizes
\* are equal too.
MessageSizesCompared(resultA, resultB) ==
  IF resultA.Hash = resultB.Hash /\ resultA.Size = resultB.Size
  THEN [NoMessage EXCEPT !.text = noDifferencesMsg]
  ELSE [text |-> "Root mismatch", hashA |-> resultA.Hash, sizeA |-> resultA.Size,
        hashB |-> resultB.Hash, sizeB |-> resultB.Size]

\* The one string of a successful comparison: the sentinel, or the root
\* mismatch message with both digests and both sizes formatted into it.
Message(resultA, resultB) ==
  IF resultA.Hash = resultB.Hash
  THEN [NoMessage EXCEPT !.text = noDifferencesMsg]
  ELSE [text |-> "Root mismatch", hashA |-> resultA.Hash, sizeA |-> resultA.Size,
        hashB |-> resultB.Hash, sizeB |-> resultB.Size]

\* CompareWithExclusions(a, b, patterns, false, ""): ioA and ioB are the
\* environment during the hash of a and of b, fA and fB the filesystem
\* each hash sees.
CompareWithExclusions(a, b, patterns, fA, ioA, fB, ioB) ==
  LET withEngines == Len(patterns) > 0
      engineA == IF withEngines THEN NewEngineWithExclusions(0, patterns, a)
                 ELSE NewEngine
      engineB == IF withEngines THEN NewEngineWithExclusions(0, patterns, b)
                 ELSE NewEngine
      outA == EngineHashPath(engineA, fA, ioA, a).out
      outB == EngineHashPath(engineB, fB, ioB, b).out
  IN IF outA.err # ""
     THEN [err |-> outA.err, msgs |-> <<>>, resA |-> outA.res, resB |-> ZeroResult]
     ELSE IF outB.err # ""
     THEN [err |-> outB.err, msgs |-> <<>>, resA |-> outA.res, resB |-> outB.res]
     ELSE [err |-> "", msgs |-> <<Message(outA.res, outB.res)>>,
           resA |-> outA.res, resB |-> outB.res]

----------------------------------------------------------------------------
(* The state machine                                                       *)

\* The exclusion pattern lists engines are made with: a plain name, and a
\* directory-only pattern with a glob, a negation of one of the glob's
\* matches and a negation of a file in the excluded directory.
PatternLists ==
  { <<nameA>>,
    << <<"b", "/">>, <<"*", "c">>, <<"!", ".", ".", "c">>,
       <<"!", "b", "/", "a">> >> }

\* The order in which the filesystem enumerates the entries of a directory
\* in the calls of the model: not the order of the names.
DiskOrder == <<nameB, nameDotsC, nameA>>

\* The record of the last call: its arguments, the environment's fault
\* during it, and what it returned.
NoLast ==
  [op |-> "none", path |-> <<>>, pathB |-> <<>>, patterns |-> <<>>,
   fault |-> NoFault, err |-> "", res |-> ZeroResult,
   resB |-> ZeroResult, msgs |-> <<>>]

\* The paths calls are made on: every entry, "/" and one missing path.
CallPaths == DOMAIN fs \cup {MissingPath}

\* The worker counts NewEngineWithWorkers is called with.
WorkerCounts == {0}

\* The faults the environment can inject during a call.
Faults ==
  {NoFault}
  \cup {Fault(k, p) : k \in {"stat", "io"}, p \in DOMAIN fs}
  \cup {Fault(k, p) : k \in {"read", "trunc"},
                      p \in {q \in DOMAIN fs : fs[q].type = "file"}}

\* The most HashPath calls in progress at once on the one engine.
MaxCalls == 2

Calls == 1..MaxCalls

\* One invocation on a call's stack: fn is "hashPath", "hashDir" or
\* "hashFile", path its path argument; a hashDir invocation holds its work
\* items and the results of the items done, a hashFile invocation its size
\* argument.
Frame(fn, path, items, size) ==
  [fn |-> fn, path |-> path, items |-> items, results |-> <<>>, size |-> size]

\* A goroutine that has not called HashPath yet: pc is the place it is at,
\* stack its invocations in progress (the innermost last), visited the
\* call's sync.Map, ret the values the invocation that ended last returned;
\* taken, opened and read record which branch hashPath took for which path,
\* the paths given to os.Open and the paths whose content or link text was
\* read.
IdleCall ==
  [pc |-> "idle", path |-> <<>>, stack |-> <<>>, visited |-> {},
   ret |-> Ok(ZeroResult), taken |-> {}, opened |-> {}, read |-> {}]

\* The calls in progress on the engine: sem is len(e.sem), the slots taken.
NoRun == [sem |-> 0, calls |-> [c \in Calls |-> IdleCall]]

TypeOK ==
  /\ RootDir \in DOMAIN fs
  /\ \A p \in DOMAIN fs : fs[p].type \in NodeTypes
  /\ engine.made \in BOOLEAN
  /\ last.op \in {"none", "HashPath", "Compare", "Match", "patternMatch",
                 "matchGlob", "NewMatcher", "FindIgnoreFiles",
                 "LoadIgnoreFile", "LoadCustomIgnoreFile"}
  /\ run.sem \in 0..MaxCalls

Init ==
  /\ fs = (RootDir :> Node("dir", <<>>))
  /\ engine = NoEngine
  /\ last = NoLast
  /\ run = NoRun

\* The filesystem is laid out before the engine is made and used.
Setup == ~engine.made /\ last.op = "none"

CanCreate(p) ==
  /\ Setup
  /\ Cardinality(DOMAIN fs) <= MaxNodes
  /\ p \notin DOMAIN fs
  /\ Dir(p) \in DOMAIN fs
  /\ fs[Dir(p)].type = "dir"

Create(p, node) ==
  /\ CanCreate(p)
  /\ fs' = (p :> node) @@ fs
  /\ UNCHANGED <<engine, last, run>>

WriteFile(p, content) == Create(p, Node("file", content))

Mkdir(p) == Create(p, Node("dir", <<>>))

Symlink(text, p) == Create(p, Node("symlink", text))

Mkfifo(p) == Create(p, Node("pipe", <<>>))

DoNewEngine ==
  /\ Setup
  /\ engine' = NewEngine
  /\ UNCHANGED <<fs, last, run>>

DoNewEngineWithWorkers(n) ==
  /\ Setup
  /\ engine' = NewEngineWithWorkers(n)
  /\ UNCHANGED <<fs, last, run>>

DoNewEngineWithExclusions(patterns, rootPath) ==
  /\ Setup
  /\ engine' = NewEngineWithExclusions(0, patterns, rootPath)
  /\ UNCHANGED <<fs, last, run>>

\* engine.HashPath(path) under the environment io.
DoHashPath(path, io) ==
  /\ engine.made
  /\ LET r == EngineHashPath(engine, fs, io, path)
     IN /\ engine' = r.engine
        /\ last' = [NoLast EXCEPT !.op = "HashPath", !.path = path,
                                  !.fault = io.fault, !.err = r.out.err,
                                  !.res = r.out.res]
  /\ fs' = FsAfter(fs, io)
  /\ UNCHANGED run

\* CompareWithExclusions(a, b, patterns, false, "") under a fault that
\* lasts for the whole comparison; a file truncated under the hash of a
\* is the shorter file, with the shorter size, for the hash of b.
DoCompare(a, b, patterns, fault) ==
  /\ Setup
  /\ LET ioA == Env(DiskOrder, fault)
         ioB == Env(DiskOrder, IF fault.kind = "trunc" THEN NoFault ELSE fault)
         fB == FsAfter(fs, ioA)
         c == CompareWithExclusions(a, b, patterns, fs, ioA, fB, ioB)
     IN /\ last' = [NoLast EXCEPT !.op = "Compare", !.path = a, !.pathB = b,
                                  !.patterns = patterns, !.fault = fault,
                                  !.err = c.err, !.res = c.resA,
                                  !.resB = c.resB, !.msgs = c.msgs]
        /\ fs' = fB
  /\ UNCHANGED <<engine, run>>

\* The program on a filesystem that answers every operation: entries are
\* made, one engine is made and used for any number of calls, or two paths
\* are compared.
Next ==
  \/ \E p \in Paths, t \in Texts : WriteFile(p, t)
  \/ \E p \in Paths : Mkdir(p)
  \/ \E p \in Paths, t \in Texts : Symlink(t, p)
  \/ \E p \in Paths : Mkfifo(p)
  \/ DoNewEngine
  \/ \E n \in WorkerCounts : DoNewEngineWithWorkers(n)
  \/ \E pats \in PatternLists, r \in DOMAIN fs :
       DoNewEngineWithExclusions(pats, r)
  \/ \E p \in CallPaths : DoHashPath(p, Env(DiskOrder, NoFault))
  \/ \E a \in CallPaths, b \in CallPaths, pats \in PatternLists \cup {<<>>} :
       DoCompare(a, b, pats, NoFault)

Spec == Init /\ [][Next]_vars

\* The program on a filesystem that may fail one operation or truncate one
\* file during the one call made.
NextIO ==
  \/ \E p \in Paths, t \in Texts : WriteFile(p, t)
  \/ \E p \in Paths : Mkdir(p)
  \/ \E p \in Paths, t \in Texts : Symlink(t, p)
  \/ \E p \in Paths : Mkfifo(p)
  \/ DoNewEngine
  \/ \E n \in WorkerCounts : DoNewEngineWithWorkers(n)
  \/ \E pats \in PatternLists, r \in DOMAIN fs :
       DoNewEngineWithExclusions(pats, r)
  \/ \E p \in CallPaths, x \in Faults :
       last.op = "none" /\ DoHashPath(p, Env(DiskOrder, x))
  \/ \E a \in DOMAIN fs, b \in DOMAIN fs, pats \in {<<>>, <<nameA>>},
        x \in Faults :
       DoCompare(a, b, pats, x)

SpecIO == Init /\ [][NextIO]_vars

----------------------------------------------------------------------------
(* Concurrent HashPath calls on one engine, step by step                   *)

\* The innermost invocation in progress.
top(call) == call.stack[Len(call.stack)]

\* An invocation returns out to its caller: hashDir's and hashFile's
\* return statements.
returnFrom(call, out) ==
  [call EXCEPT !.pc = "return", !.ret = out,
               !.stack = SubSeq(@, 1, Len(@) - 1)]

\* A hashPath that returns without its deferred visited.Delete.
exitHashPathNoDelete(call, out) ==
  [call EXCEPT !.pc = "return", !.ret = out,
               !.stack = SubSeq(@, 1, Len(@) - 1)]

\* hashPath returns out: the deferred visited.Delete(absPath) runs.
exitHashPath(call, out) ==
  [call EXCEPT !.pc = "return", !.ret = out,
               !.stack = SubSeq(@, 1, Len(@) - 1),
               !.visited = @ \ {top(call).path}]

\* hashPath is called on absPath: the cycle check, and visited.Store with
\* the Delete deferred.
invokeHashPath(call, absPath) ==
  IF absPath \in call.visited
  THEN [call EXCEPT !.pc = "return",
                    !.ret = Failed("circular symlink detected")]
  ELSE [call EXCEPT !.pc = "lstat",
                    !.visited = @ \cup {absPath},
                    !.stack = Append(@, Frame("hashPath", absPath, <<>>, 0))]

\* hashFile is called: the check against rootPath comes before the slot.
invokeHashFile(call, e, path, size) ==
  IF outsideRoot(e, path)
  THEN [call EXCEPT !.pc = "return",
                    !.ret = Failed("path outside allowed directory")]
  ELSE [call EXCEPT !.pc = "acquire",
                    !.stack = Append(@, Frame("hashFile", path, <<>>, size))]

\* hashDir is called: the listing, the sort and the filter loop.
invokeHashDir(call, e, f, path) ==
  [call EXCEPT !.pc = "item",
               !.stack = Append(@,
                  Frame("hashDir", path,
                        workItems(e, f, path,
                                  sortEntries(ReadDirNames(
                                    f, Env(DiskOrder, NoFault), path))),
                        0))]

\* A hashPath that tests the exclusion patterns before the lstat.
hashPathBranchExclusionFirst(e, f, absPath) ==
  IF excludedPath(e, absPath, absPath \in DOMAIN f /\ f[absPath].type = "dir")
  THEN "Excluded"
  ELSE IF absPath \notin DOMAIN f THEN "StatError"
  ELSE IF f[absPath].type = "symlink" THEN "Leaf-Symlink"
  ELSE IF f[absPath].type = "dir" THEN "Directory"
  ELSE "Leaf-File"

\* The branch hashPath takes for absPath once it is stored in visited:
\* lstat, the exclusion test, the symlink test, the directory test, and
\* hashFile for whatever is left.
hashPathBranch(e, f, absPath) ==
  IF absPath \notin DOMAIN f THEN "StatError"
  ELSE IF excludedPath(e, absPath, f[absPath].type = "dir") THEN "Excluded"
  ELSE IF f[absPath].type = "symlink" THEN "Leaf-Symlink"
  ELSE IF f[absPath].type = "dir" THEN "Directory"
  ELSE "Leaf-File"

\* A symlink branch that goes on into what the link names.
hashPathSymlinkTraversed(call, f, absPath) ==
  invokeHashPath([call EXCEPT !.read = @ \cup {absPath}], f[absPath].data)

\* hashPath's symlink branch: Readlink, the hash of the text, size 0.
hashPathSymlinkLeaf(call, f, absPath) ==
  exitHashPath([call EXCEPT !.read = @ \cup {absPath}],
               Ok(Result(Blake3Sum(f[absPath].data), 0)))

\* hashPath from its lstat on, the branch being known.
hashPathTake(call, e, f, absPath, branch) ==
  IF branch = "StatError" THEN exitHashPath(call, Failed("failed to stat path"))
  ELSE IF branch = "Excluded" THEN exitHashPath(call, Ok(EmptyResult))
  ELSE IF branch = "Leaf-Symlink" THEN hashPathSymlinkLeaf(call, f, absPath)
  ELSE IF branch = "Directory" THEN invokeHashDir(call, e, f, absPath)
  ELSE invokeHashFile(call, e, absPath, StatSize(f, absPath))

hashPathLogged(call, e, f, absPath, branch) ==
  hashPathTake([call EXCEPT !.taken = @ \cup {<<absPath, branch>>}],
               e, f, absPath, branch)

hashPathStep(call, e, f) ==
  hashPathLogged(call, e, f, top(call).path,
                 hashPathBranch(e, f, top(call).path))

\* results[i] = result; the processing loop goes on.
addResult(call, res) ==
  [call EXCEPT !.pc = "item",
               !.stack[Len(call.stack)].results = Append(@, res)]

\* One item of hashDir's processing loop.
hashDirItem(call, e, f, childPath) ==
  IF f[childPath].type = "symlink"
  THEN addResult([call EXCEPT !.read = @ \cup {childPath}],
                 Result(Blake3Sum(f[childPath].data), 0))
  ELSE IF f[childPath].type = "dir" THEN invokeHashPath(call, childPath)
  ELSE invokeHashFile(call, e, childPath, StatSize(f, childPath))

\* hashDir at the head of its processing loop: the next item, or, the
\* items done, the empty result or the combination of the results.
hashDirLoop(call, e, f, frame) ==
  IF Len(frame.results) < Len(frame.items)
  THEN hashDirItem(call, e, f,
                   Join(frame.path, frame.items[Len(frame.results) + 1]))
  ELSE returnFrom(call, Ok(IF frame.items = <<>> THEN EmptyResult
                           ELSE combine(frame.results)))

hashDirStep(call, e, f) == hashDirLoop(call, e, f, top(call))

\* The caller takes what its callee returned: HashPath and hashPath return
\* it as it is, hashDir returns on an error and stores a result.
returnStep(call) ==
  IF call.stack = <<>> THEN [call EXCEPT !.pc = "done"]
  ELSE IF top(call).fn = "hashPath" THEN exitHashPath(call, call.ret)
  ELSE IF call.ret.err # "" THEN returnFrom(call, Failed(call.ret.err))
  ELSE addResult(call, call.ret.res)

\* A send on e.sem that never blocks.
semAlwaysRoom(sem, maxWorkers) == TRUE

\* e.sem <- struct{}{} can proceed: the channel's buffer is not full.
semHasRoom(sem, maxWorkers) == sem < maxWorkers

\* A hashFile that returns without the receive from e.sem.
releaseSkipped(sem) == sem

\* The deferred <-e.sem of hashFile.
releaseSlot(sem) == sem - 1

\* The pool sizes NewEngineWithWorkers is called with in these runs.
PoolSizes == {0, 1}

SetCall(c, call, sem) ==
  run' = [run EXCEPT !.calls[c] = call, !.sem = sem]

\* HashPath(path) begins: rootPath is read, and found empty or not.  The
\* calls are numbered in the order in which they begin.
BeginHashPath(c, path) ==
  /\ engine.made
  /\ run.calls[c].pc = "idle"
  /\ \A d \in 1..(c - 1) : run.calls[d].pc # "idle"
  /\ SetCall(c,
             IF engine.rootPath = <<>>
             THEN [IdleCall EXCEPT !.pc = "root", !.path = path]
             ELSE invokeHashPath([IdleCall EXCEPT !.path = path], path),
             run.sem)
  /\ UNCHANGED <<fs, engine, last>>

\* e.rootPath = absPath, by a call that found it empty, whatever it holds
\* by now.
SetRootPath(c) ==
  /\ run.calls[c].pc = "root"
  /\ engine' = [engine EXCEPT !.rootPath = run.calls[c].path]
  /\ SetCall(c, invokeHashPath(run.calls[c], run.calls[c].path), run.sem)
  /\ UNCHANGED <<fs, last>>

HashPathStep(c) ==
  /\ run.calls[c].pc = "lstat"
  /\ SetCall(c, hashPathStep(run.calls[c], engine, fs), run.sem)
  /\ UNCHANGED <<fs, engine, last>>

HashDirStep(c) ==
  /\ run.calls[c].pc = "item"
  /\ SetCall(c, hashDirStep(run.calls[c], engine, fs), run.sem)
  /\ UNCHANGED <<fs, engine, last>>

\* e.sem <- struct{}{}, with the receive deferred.
Acquire(c) ==
  /\ run.calls[c].pc = "acquire"
  /\ semHasRoom(run.sem, engine.maxWorkers)
  /\ SetCall(c, [run.calls[c] EXCEPT !.pc = "open"], run.sem + 1)
  /\ UNCHANGED <<fs, engine, last>>

\* os.Open(path): on an error hashFile returns and the deferred receive
\* frees the slot.
Open(c, ok) ==
  /\ run.calls[c].pc = "open"
  /\ IF ok
     THEN SetCall(c, [run.calls[c] EXCEPT
                        !.pc = "read",
                        !.opened = @ \cup {top(run.calls[c]).path}],
                  run.sem)
     ELSE SetCall(c, returnFrom([run.calls[c] EXCEPT
                                   !.opened = @ \cup {top(run.calls[c]).path}],
                                Failed("failed to open file")),
                  releaseSlot(run.sem))
  /\ UNCHANGED <<fs, engine, last>>

\* The read loop to io.EOF or to an error, and hashFile's return: the
\* deferred Close and the deferred receive from e.sem.
readAll(call, f, frame, ok) ==
  returnFrom([call EXCEPT !.read = @ \cup {frame.path}],
             IF ok THEN Ok(Result(Blake3Sum(f[frame.path].data), frame.size))
             ELSE Failed("failed to read file"))

Read(c, ok) ==
  /\ run.calls[c].pc = "read"
  /\ SetCall(c, readAll(run.calls[c], fs, top(run.calls[c]), ok),
             releaseSlot(run.sem))
  /\ UNCHANGED <<fs, engine, last>>

Return(c) ==
  /\ run.calls[c].pc = "return"
  /\ SetCall(c, returnStep(run.calls[c]), run.sem)
  /\ UNCHANGED <<fs, engine, last>>

\* The steps of a call that has begun.
Advance(c) ==
  \/ SetRootPath(c)
  \/ HashPathStep(c)
  \/ HashDirStep(c)
  \/ Acquire(c)
  \/ \E ok \in BOOLEAN : Open(c, ok)
  \/ \E ok \in BOOLEAN : Read(c, ok)
  \/ Return(c)

\* The call waits in os.Open for a writer of a named pipe.
AtPipeOpen(c) ==
  /\ run.calls[c].pc = "open"
  /\ fs[top(run.calls[c]).path].type = "pipe"

\* The paths of the trees these runs are made on, and the content of
\* their files.
RunPaths ==
  {Join(RootDir, nameA), Join(RootDir, nameB),
   Join(Join(RootDir, nameA), nameB)}

RunContent == Join(RootDir, nameA)

\* The tree is laid out.
Arrange ==
  \/ \E p \in RunPaths : WriteFile(p, RunContent)
  \/ \E p \in RunPaths : Mkdir(p)
  \/ \E p \in RunPaths, t \in Texts : Symlink(t, p)
  \/ \E p \in RunPaths : Mkfifo(p)

\* Up to MaxCalls goroutines call HashPath on the one engine, each call
\* taken one step at a time.
Steps ==
  \/ \E c \in Calls, p \in CallPaths : BeginHashPath(c, p)
  \/ \E c \in Calls : SetRootPath(c)
  \/ \E c \in Calls : HashPathStep(c)
  \/ \E c \in Calls : HashDirStep(c)
  \/ \E c \in Calls : Acquire(c)
  \/ \E c \in Calls, ok \in BOOLEAN : Open(c, ok)
  \/ \E c \in Calls, ok \in BOOLEAN : Read(c, ok)
  \/ \E c \in Calls : Return(c)

\* The program with concurrent calls on an engine of any kind.
NextRun ==
  \/ Arrange
  \/ DoNewEngine
  \/ \E n \in PoolSizes : DoNewEngineWithWorkers(n)
  \/ \E pats \in PatternLists, r \in DOMAIN fs :
       DoNewEngineWithExclusions(pats, r)
  \/ Steps

SpecRun == Init /\ [][NextRun]_vars

\* The program with concurrent calls on an engine made with a pool size.
NextPool ==
  \/ Arrange
  \/ \E n \in PoolSizes : DoNewEngineWithWorkers(n)
  \/ Steps

\* The scheduler runs every goroutine that can take a step and every
\* operation on a file completes, the open of a named pipe too.
SpecRunFair ==
  Init /\ [][NextPool]_vars /\ \A c \in Calls : WF_vars(Advance(c))

\* The scheduler runs every goroutine that can take a step, but no writer
\* ever opens a named pipe: os.Open of a pipe for reading does not return.
SpecRunPipe ==
  Init /\ [][NextPool]_vars
  /\ \A c \in Calls : WF_vars(Advance(c) /\ ~AtPipeOpen(c))

----------------------------------------------------------------------------
(* Calls of the exclusion matcher on its own                               *)

\* The most pattern lines a matcher is made of in these calls.
MaxPatterns == 2

\* Pattern lines: plain names, negations, a directory-only pattern, globs,
\* two-segment patterns and a comment.
PatternLines ==
  { <<"a">>, <<"!", "a">>, <<"b", "/">>, <<"!", "b">>, <<"*", "c">>,
    <<"!", ".", ".", "c">>, <<"a", "/", "b">>, <<"!", "a", "/", "*">>,
    <<"#", "a">> }

\* The lists of at most n lines.
RECURSIVE LinesUpTo(_)
LinesUpTo(n) ==
  IF n = 0 THEN {<<>>}
  ELSE LET shorter == LinesUpTo(n - 1)
       IN shorter \cup {Append(l, x) : l \in shorter, x \in PatternLines}

\* The candidate paths Match is called with: relative paths of one to
\* three segments, "." and an absolute path.
MatchPaths ==
  { <<"a">>, <<"b">>, <<"c">>, <<".", ".", "c">>, <<".">>,
    <<"a", "/", "b">>, <<"b", "/", "a">>, <<"a", "/", ".", ".", "c">>,
    <<"a", "/", "b", "/", "c">>, <<"/", "a", "/", "b">> }

\* The file names and the pattern set of the documented negation example.
importantLog ==
  <<"i", "m", "p", "o", "r", "t", "a", "n", "t", ".", "l", "o", "g">>

otherLog == <<"o", "t", "h", "e", "r", ".", "l", "o", "g">>

LogPatterns == << <<"*", ".", "l", "o", "g">>, <<"!">> \o importantLog >>

\* Paths to a file important.log or other.log below no, one or two
\* directories, a directory being named like a file or not.
LogDirs == {<<>>} \cup {<<d>> : d \in {nameA, importantLog, otherLog}}
             \cup {<<d1, d2>> : d1, d2 \in {nameA, importantLog, otherLog}}

LogPaths ==
  {JoinSegs(dirs \o <<name>>) : dirs \in LogDirs,
                                 name \in {importantLog, otherLog}}

\* pm := NewPatternMatcher(patterns); pm.Match(path, isDir)
DoMatch(patterns, path, isDir) ==
  /\ Setup
  /\ last' = [op |-> "Match", patterns |-> patterns, path |-> path,
              isDir |-> isDir,
              ret |-> PatternMatcherMatch(NewPatternMatcher(patterns),
                                          path, isDir)]
  /\ UNCHANGED <<fs, engine, run>>

\* The names of the ignore files looked for in every directory.
mtcignore == <<".", "m", "t", "c", "i", "g", "n", "o", "r", "e">>

gitignore == <<".", "g", "i", "t", "i", "g", "n", "o", "r", "e">>

\* The scanner loop of LoadIgnoreFile and LoadCustomIgnoreFile: the lines
\* trimmed, blank lines and comments dropped.
RECURSIVE scanPatterns(_)
scanPatterns(lines) ==
  IF lines = <<>> THEN <<>>
  ELSE LET line == TrimSpace(Head(lines))
           rest == scanPatterns(Tail(lines))
       IN IF line # <<>> /\ ~HasPrefix(line, <<"#">>) THEN <<line>> \o rest
          ELSE rest

\* One step of filepath.Clean's walk over the segments of a path: empty
\* segments and "." are dropped, ".." takes back the segment before it, is
\* dropped at the root and is kept at the front of a relative path.
cleanStep(out, seg, rooted) ==
  IF seg = <<>> \/ seg = <<".">> THEN out
  ELSE IF seg # <<".", ".">> THEN Append(out, seg)
  ELSE IF out # <<>> /\ out[Len(out)] # <<".", ".">>
    THEN SubSeq(out, 1, Len(out) - 1)
  ELSE IF rooted THEN out
  ELSE Append(out, seg)

RECURSIVE cleanSegs(_, _, _)
cleanSegs(segs, out, rooted) ==
  IF segs = <<>> THEN out
  ELSE cleanSegs(Tail(segs), cleanStep(out, Head(segs), rooted), rooted)

\* The cleaned path of segments out: rooted at "/", or relative and "."
\* when no segment is left.
cleanJoin(rooted, out, joined) ==
  IF rooted THEN <<"/">> \o joined
  ELSE IF out = <<>> THEN <<".">>
  ELSE joined

cleanFrom(rooted, out) == cleanJoin(rooted, out, JoinSegs(out))

\* filepath.Clean
Clean(p) ==
  cleanFrom(p # <<>> /\ Head(p) = "/",
            cleanSegs(Split(p), <<>>, p # <<>> /\ Head(p) = "/"))

\* filepath.Abs in working directory wd
Abs(wd, p) ==
  Clean(IF p # <<>> /\ Head(p) = "/" THEN p ELSE wd \o <<"/">> \o p)

\* strings.Contains(s, "..")
ContainsDotDot(s) ==
  \E i \in 1..(Len(s) - 1) : s[i] = "." /\ s[i + 1] = "."

\* What a load of an ignore file returns, and the paths it gave to os.Open.
Loaded(err, patterns, opened) ==
  [err |-> err, patterns |-> patterns, opened |-> opened]

\* The part of LoadIgnoreFile and LoadCustomIgnoreFile from os.Open on.
\* files maps the path of every file that exists to a record of whether
\* it can be opened and read and of its lines; notExist is what a missing
\* file gives.
openAndScan(files, path, notExist) ==
  IF path \notin DOMAIN files THEN Loaded(notExist, <<>>, {path})
  ELSE IF ~files[path].readable
    THEN Loaded("failed to open ignore file", <<>>, {path})
  ELSE Loaded("", scanPatterns(files[path].lines), {path})

\* LoadIgnoreFile's checks of filename and of the path of the file, and
\* the load: cleanFilename and absIgnorePath are what filepath.Clean and
\* filepath.Abs made of the name and of the path joined from root and
\* name, absRoot is the absolute root.
loadChecked(files, filename, cleanFilename, absRoot, absIgnorePath) ==
  IF ContainsDotDot(filename) \/ Contains(filename, "/")
     \/ cleanFilename # filename
    THEN Loaded("invalid filename", <<>>, {})
  ELSE IF /\ absIgnorePath # absRoot
          /\ ~HasPrefix(absIgnorePath,
                        IF absRoot = RootDir THEN RootDir
                        ELSE absRoot \o <<"/">>)
    THEN Loaded("ignore file path outside root directory", <<>>, {})
  ELSE openAndScan(files, absIgnorePath, "")

loadJoined(files, filename, cleanFilename, absRoot) ==
  loadChecked(files, filename, cleanFilename, absRoot,
              Clean(absRoot \o <<"/">> \o cleanFilename))

\* LoadIgnoreFile(rootPath, filename) for a clean absolute rootPath; nil
\* (<<>>) and no error for a missing file and for a file without pattern
\* lines.
LoadIgnoreFile(files, rootPath, filename) ==
  loadJoined(files, filename, Clean(filename), rootPath)

\* One round of the loop of FindIgnoreFiles in directory current, mtc and
\* git being what the loads of its .mtcignore and .gitignore returned:
\* the outcome when the loop ends here, else the patterns and the opened
\* paths the next round starts with.
findRound(current, allPatterns, opened, mtc, git) ==
  IF mtc.err # "" THEN Loaded(mtc.err, <<>>, opened \cup mtc.opened)
  ELSE IF git.err # ""
    THEN Loaded(git.err, <<>>, opened \cup mtc.opened \cup git.opened)
  ELSE Loaded("",
              (IF mtc.patterns # <<>> THEN mtc.patterns \o allPatterns
               ELSE allPatterns) \o git.patterns,
              opened \cup mtc.opened \cup git.opened)

\* The loop of FindIgnoreFiles from directory current upwards, round being
\* the round in current.
RECURSIVE findIgnoreFilesFrom(_, _, _)
findNext(files, current, round) ==
  IF round.err # "" \/ Dir(current) = current THEN round
  ELSE findIgnoreFilesFrom(files, Dir(current), round)

findIgnoreFilesFrom(files, current, sofar) ==
  findNext(files, current,
           findRound(current, sofar.patterns, sofar.opened,
                     LoadIgnoreFile(files, current, mtcignore),
                     LoadIgnoreFile(files, current, gitignore)))

\* FindIgnoreFiles() called with working directory wd.
FindIgnoreFiles(files, wd) ==
  findIgnoreFilesFrom(files, wd, Loaded("", <<>>, {}))

\* LoadCustomIgnoreFile's check of the absolute path and the load.
loadCustomChecked(files, absPath) ==
  IF ContainsDotDot(absPath) THEN Loaded("invalid file path", <<>>, {})
  ELSE openAndScan(files, absPath, "ignore file does not exist")

\* LoadCustomIgnoreFile(filePath) in working directory wd.  The absolute
\* path is clean, so cleaning it once more changes nothing.
LoadCustomIgnoreFile(files, wd, filePath) ==
  loadCustomChecked(files, Abs(wd, Clean(filePath)))

\* The matcher NewMatcher makes of the command-line patterns and of what
\* the custom ignore file and FindIgnoreFiles gave.
newMatcherOf(allPatterns) ==
  IF Len(allPatterns) = 0 THEN [err |-> "", m |-> NoOpMatcher]
  ELSE [err |-> "",
        m |-> [kind |-> "pattern",
               patterns |-> NewPatternMatcher(allPatterns)]]

newMatcherFrom(patterns, custom, ignore) ==
  IF custom.err # ""
    THEN [err |-> "failed to load custom ignore file", m |-> NilMatcher]
  ELSE IF ignore.err # ""
    THEN [err |-> "failed to load ignore files", m |-> NilMatcher]
  ELSE newMatcherOf(patterns \o custom.patterns \o ignore.patterns)

\* NewMatcher(patterns, rootPath, loadIgnoreFile, customIgnoreFile) called
\* with working directory wd; rootPath is not used.
NewMatcherLoading(patterns, loadIgnoreFile, customIgnoreFile, files, wd) ==
  newMatcherFrom(patterns,
                 IF customIgnoreFile # <<>>
                 THEN LoadCustomIgnoreFile(files, wd, customIgnoreFile)
                 ELSE Loaded("", <<>>, {}),
                 IF loadIgnoreFile THEN FindIgnoreFiles(files, wd)
                 ELSE Loaded("", <<>>, {}))

\* The working directories FindIgnoreFiles starts from, and the ignore
\* files that may exist on the way up.
WorkDirs == {RootDir, Join(RootDir, nameA), Join(Join(RootDir, nameA), nameB)}

IgnoreFilePaths == {Join(d, n) : d \in WorkDirs, n \in {mtcignore, gitignore}}

\* The one pattern of the ignore file at path p, a different one for every
\* file: "m" or "g" for the kind of file and the depth of its directory.
PatternOf(p) ==
  <<IF Base(p) = mtcignore THEN "m" ELSE "g",
    <<"0", "1", "2">>[Len(PathSegs(Dir(p))) + 1]>>

\* A file that exists, with its lines, readable or not.
File(readable, lines) == [readable |-> readable, lines |-> lines]

\* What an ignore file at path p is: a file that holds only a comment, a
\* file that holds its pattern between spaces and a blank line, or a file
\* that cannot be read.
FileStates(p) ==
  { File(TRUE, << <<"#", "a">> >>),
    File(TRUE, << <<" ">> \o PatternOf(p) \o <<" ">>, <<>> >>),
    File(FALSE, <<>>) }

\* The sets of ignore files that may exist: every subset of paths, every
\* content.
RECURSIVE IgnoreFilesOver(_)
IgnoreFilesOver(paths) ==
  IF paths = {} THEN {<<>>}
  ELSE LET p == CHOOSE q \in paths : TRUE
           others == IgnoreFilesOver(paths \ {p})
       IN others \cup {(p :> l) @@ f : l \in FileStates(p), f \in others}

\* patterns, err := FindIgnoreFiles()
findCall(files, wd, found) ==
  [op |-> "FindIgnoreFiles", files |-> files, wd |-> wd,
   err |-> found.err, ret |-> found.patterns]

DoFindIgnoreFiles(files, wd) ==
  /\ Setup
  /\ last' = findCall(files, wd, FindIgnoreFiles(files, wd))
  /\ UNCHANGED <<fs, engine, run>>

\* The custom ignore files of the calls of NewMatcher: one with a plain
\* name and one whose name begins with two dots.
customFile == Join(RootDir, <<"c">>)

customDotsFile == Join(RootDir, nameDotsC)

\* What a source of patterns says about the file "a": nothing, excluded,
\* or not excluded.
Verdicts == {<<>>, <<nameA>>, << <<"!">> \o nameA >>}

\* The files the calls of NewMatcher may find: each of the custom file,
\* /.mtcignore and /.gitignore missing, unreadable or holding a verdict,
\* and the custom file with the dotted name missing or holding one.
SourceFiles ==
  LET paths == {customFile, Join(RootDir, mtcignore), Join(RootDir, gitignore)}
      states == {File(TRUE, v) : v \in Verdicts \ {<<>>}}
                  \cup {File(FALSE, <<>>)}
      some(S) == {[p \in D |-> g[p]] : g \in [S -> states], D \in {S}}
      plain == UNION {some(S) : S \in SUBSET paths}
  IN plain \cup {(customDotsFile :> File(TRUE, <<nameA>>)) @@ f : f \in plain}

\* m, err := NewMatcher(patterns, rootPath, loadIgnoreFile, customIgnoreFile)
\* and, when it succeeds, m.Match(path, isDir)
newMatcherCall(patterns, loadIgnoreFile, customIgnoreFile, files, path, isDir, made) ==
  [op |-> "NewMatcher", patterns |-> patterns,
   loadIgnoreFile |-> loadIgnoreFile, customIgnoreFile |-> customIgnoreFile,
   files |-> files, path |-> path, isDir |-> isDir, err |-> made.err,
   ret |-> made.err = "" /\ MatcherMatch(made.m, path, isDir)]

DoNewMatcher(patterns, loadIgnoreFile, customIgnoreFile, files, path, isDir) ==
  /\ Setup
  /\ last' = newMatcherCall(patterns, loadIgnoreFile, customIgnoreFile, files,
                            path, isDir,
                            NewMatcherLoading(patterns, loadIgnoreFile,
                                              customIgnoreFile, files,
                                              RootDir))
  /\ UNCHANGED <<fs, engine, run>>

\* The patterns matchSegments is called with on its own: patterns of more
\* than one segment that end in "**", one that begins with it and one
\* without it.
SegmentPatterns ==
  { <<"a", "/", "*", "*">>, <<"a", "/", "b", "/", "*", "*">>,
    <<"*", "c", "/", "*", "*">>, <<"*", "*", "/", "a">>, <<"a", "/", "b">> }

\* The most segments of the paths matchSegments is called with.
MaxSegments == 3

\* The lists of at most n path segments.
RECURSIVE SegmentsUpTo(_)
SegmentsUpTo(n) ==
  IF n = 0 THEN {<<>>}
  ELSE LET shorter == SegmentsUpTo(n - 1)
       IN shorter \cup {Append(l, x) : l \in shorter, x \in Names}

\* pm := NewPatternMatcher([]string{line});
\* pm.patterns[0].matchSegments(pathSegments)
DoMatchSegments(line, pathSegments) ==
  /\ Setup
  /\ last' = [op |-> "patternMatch", pattern |-> line,
              pathSegments |-> pathSegments,
              ret |-> matchSegments(NewPatternMatcher(<<line>>)[1],
                                    pathSegments)]
  /\ UNCHANGED <<fs, engine, run>>

\* The most bytes of the strings and patterns matchGlob is called with.
MaxGlobLen == 3

\* The strings of at most n bytes over the bytes of chars.
RECURSIVE StringsUpTo(_, _)
StringsUpTo(chars, n) ==
  IF n = 0 THEN {<<>>}
  ELSE LET shorter == StringsUpTo(chars, n - 1)
       IN shorter \cup {Append(l, c) : l \in shorter, c \in chars}

\* matchGlob(s, pattern)
DoMatchGlob(s, pattern) ==
  /\ Setup
  /\ last' = [op |-> "matchGlob", s |-> s, pattern |-> pattern,
              ret |-> matchGlob(s, pattern)]
  /\ UNCHANGED <<fs, engine, run>>

\* The files of the calls of the two loaders on their own: the two
\* directories the calls are made in, which open and cannot be read as
\* files, alone or with a readable file holding the pattern "a" at every
\* path a call may open.
LoaderDirs ==
  [d \in {RootDir, Join(RootDir, nameA)} |-> File(FALSE, <<>>)]

LoaderFiles ==
  { LoaderDirs,
    [p \in {Join(d, n) : d \in DOMAIN LoaderDirs,
                         n \in {mtcignore, <<"c">>, nameDotsC}}
       |-> File(TRUE, <<nameA>>)] @@ LoaderDirs }

\* The file names LoadIgnoreFile is called with: the two ignore file
\* names, a plain name, names with ".." or a separator in them, and names
\* that filepath.Clean changes.
LoaderNames ==
  { mtcignore, gitignore, <<"c">>, <<".", ".">>, <<".", ".", "/", "c">>,
    nameDotsC, <<"a", "/", "c">>, <<"/", "c">>, <<".", "/", "c">>, <<".">>,
    <<>> }

\* patterns, err := LoadIgnoreFile(rootPath, filename)
loadCall(op, files, wd, path, loaded) ==
  [op |-> op, files |-> files, wd |-> wd, path |-> path, err |-> loaded.err,
   ret |-> loaded.patterns, opened |-> loaded.opened]

DoLoadIgnoreFile(files, rootPath, filename) ==
  /\ Setup
  /\ last' = loadCall("LoadIgnoreFile", files, rootPath, filename,
                      LoadIgnoreFile(files, rootPath, filename))
  /\ UNCHANGED <<fs, engine, run>>

\* The paths LoadCustomIgnoreFile is called with: absolute and relative
\* paths of files, with and without ".." segments, and of a file whose
\* name begins with two dots.
CustomPaths ==
  { <<"/", "c">>, <<"c">>, <<"/", "a", "/", "c">>, <<"a", "/", "c">>,
    <<".", ".", "/", "c">>, <<"/", "a", "/", ".", ".", "/", "c">>,
    <<"a", "/", ".", ".", "/", "c">>, <<".", "/", "c">>,
    customDotsFile, nameDotsC, <<"/", "a", "/", ".", ".", "c">>,
    <<"/", "b">> }

\* patterns, err := LoadCustomIgnoreFile(filePath), called in directory wd
DoLoadCustomIgnoreFile(files, wd, filePath) ==
  /\ Setup
  /\ last' = loadCall("LoadCustomIgnoreFile", files, wd, filePath,
                      LoadCustomIgnoreFile(files, wd, filePath))
  /\ UNCHANGED <<fs, engine, run>>

\* The matcher and the loaders of its patterns called on their own, one
\* call from the start.
NextIgnore ==
  \/ Setup /\ \E pats \in LinesUpTo(MaxPatterns), path \in MatchPaths,
        isDir \in BOOLEAN :
       DoMatch(pats, path, isDir)
  \/ Setup /\ \E path \in LogPaths : DoMatch(LogPatterns, path, FALSE)
  \/ Setup /\ \E line \in SegmentPatterns, segs \in SegmentsUpTo(MaxSegments) :
       DoMatchSegments(line, segs)
  \/ Setup /\ \E s \in StringsUpTo({"a", "b"}, MaxGlobLen),
        pattern \in StringsUpTo({"a", "b", "*", "?"}, MaxGlobLen) :
       DoMatchGlob(s, pattern)
  \/ Setup /\ \E files \in LoaderFiles,
                 rootPath \in DOMAIN LoaderDirs,
                 filename \in LoaderNames :
       DoLoadIgnoreFile(files, rootPath, filename)
  \/ Setup /\ \E files \in LoaderFiles,
                 wd \in DOMAIN LoaderDirs,
                 filePath \in CustomPaths :
       DoLoadCustomIgnoreFile(files, wd, filePath)
  \/ Setup /\ \E files \in IgnoreFilesOver(IgnoreFilePaths), wd \in WorkDirs :
       DoFindIgnoreFiles(files, wd)
  \/ Setup /\ \E patterns \in Verdicts, loadIgnoreFile \in BOOLEAN,
        customIgnoreFile \in {<<>>, customFile, customDotsFile},
        files \in SourceFiles,
        path \in {nameA, nameB} :
       DoNewMatcher(patterns, loadIgnoreFile, customIgnoreFile, files, path,
                    FALSE)

SpecIgnore == Init /\ [][NextIgnore]_vars

----------------------------------------------------------------------------
(* What the properties below speak of                                      *)

\* The environment of the calls of Spec: no fault, entries in DiskOrder.
Quiet == Env(DiskOrder, NoFault)

\* What the last call returned.
LastOut == [err |-> last.err, res |-> last.res]

\* Path p lies strictly below directory d.
Under(p, d) ==
  /\ p # d
  /\ HasPrefix(p, IF d = RootDir THEN d ELSE d \o <<"/">>)

\* The names of the entries of directory path that take part in its
\* digest: neither special nor excluded.
IncludedNames(e, f, path) ==
  {n \in Names :
     /\ Join(path, n) \in DOMAIN f
     /\ f[Join(path, n)].type # "pipe"
     /\ ~excludedEntry(e, path, n, f[Join(path, n)].type = "dir")}

\* The names of S in ascending byte-wise order.
Ascending(S) ==
  CHOOSE s \in [1..Cardinality(S) -> S] :
    \A i, j \in 1..Cardinality(S) : i < j => StrLess(s[i], s[j])

\* The last call hashed an existing directory that is not itself excluded.
HashedDir ==
  /\ last.op = "HashPath"
  /\ last.path \in DOMAIN fs
  /\ fs[last.path].type = "dir"
  /\ ~excludedPath(engine, last.path, TRUE)

----------------------------------------------------------------------------
(* C1                                                                      *)

RECURSIVE C1_Digests(_, _)
C1_Digests(outs, i) ==
  IF i > Len(outs) THEN <<>>
  ELSE outs[i].res.Hash \o C1_Digests(outs, i + 1)

RECURSIVE C1_Sizes(_, _)
C1_Sizes(outs, i) ==
  IF i > Len(outs) THEN 0
  ELSE outs[i].res.Size + C1_Sizes(outs, i + 1)

\* The results of the children of the hashed directory that take part,
\* in ascending name order.
C1_ChildOuts ==
  LET kids == Ascending(IncludedNames(engine, fs, last.path))
  IN [i \in 1..Len(kids) |->
        hashPath(engine, fs, Quiet, Join(last.path, kids[i]), {})]

\* C1: the digest of a directory is the hash of the digests of its
\* non-excluded, non-special children, one after the other in ascending
\* byte-wise order of their names, and its size is the sum of their sizes;
\* the result is the same whatever order the listing returns the entries in.
C1_DirectoryDigest ==
  HashedDir =>
    LET outs == C1_ChildOuts
        ok == \A i \in 1..Len(outs) : outs[i].err = ""
    IN /\ ok => /\ last.err = ""
                /\ last.res = Result(Blake3Sum(C1_Digests(outs, 1)),
                                     C1_Sizes(outs, 1))
       /\ ~ok => last.err # ""
       /\ \A q \in Perms :
            hashPath(engine, fs, Env(q, NoFault), last.path, {}) = LastOut

\* A directory was hashed whose listing returned two children with
\* different digests in descending name order.
C1_Witness ==
  /\ HashedDir
  /\ last.err = ""
  /\ \E n1, n2 \in IncludedNames(engine, fs, last.path) :
       /\ StrLess(n1, n2)
       /\ \E i, j \in 1..Len(DiskOrder) :
            i < j /\ DiskOrder[i] = n2 /\ DiskOrder[j] = n1
       /\ hashPath(engine, fs, Quiet, Join(last.path, n1), {}).res.Hash
            # hashPath(engine, fs, Quiet, Join(last.path, n2), {}).res.Hash

----------------------------------------------------------------------------
(* C2                                                                      *)

\* The entry at p is a symlink whose text is its own path.
SelfReferential(f, p) ==
  /\ p \in DOMAIN f
  /\ f[p].type = "symlink"
  /\ f[p].data = p

\* The entry at p is a symlink to another symlink whose text is p.
TwoNodeCycle(f, p) ==
  /\ p \in DOMAIN f
  /\ f[p].type = "symlink"
  /\ f[p].data # p
  /\ f[p].data \in DOMAIN f
  /\ f[f[p].data].type = "symlink"
  /\ f[f[p].data].data = p

\* The last call was HashPath on a symlink that is part of a cycle.
C2_Call ==
  /\ last.op = "HashPath"
  /\ SelfReferential(fs, last.path) \/ TwoNodeCycle(fs, last.path)

----------------------------------------------------------------------------
(* C3                                                                      *)

\* f without the entry at t and the entries below it.
WithoutTree(f, t) ==
  [p \in {q \in DOMAIN f : q # t /\ ~Under(q, t)} |-> f[p]]

\* Every entry a path can hold.
Nodes ==
  {Node("file", x) : x \in Texts} \cup {Node("symlink", x) : x \in Texts}
  \cup {Node("dir", <<>>), Node("pipe", <<>>)}

\* The filesystems that agree with f except in what is at path t: nothing,
\* or any one entry.
TargetVariants(f, t) ==
  {WithoutTree(f, t)} \cup {(t :> n) @@ WithoutTree(f, t) : n \in Nodes}

\* The symlinks the last call hashed whose target lies outside the hashed
\* tree and is not above it.
C3_LinksOut ==
  {s \in DOMAIN fs :
     /\ fs[s].type = "symlink"
     /\ s = last.path \/ Under(s, last.path)
     /\ fs[s].data # last.path
     /\ ~Under(fs[s].data, last.path)
     /\ ~Under(last.path, fs[s].data)}

\* C3: the result for a symlink is the hash of its link text with size 0,
\* as the root of a HashPath call and as a child met in a directory, and
\* it is the same whatever the target is: a file, a directory, another
\* link, or nothing. The target is never read or entered.
C3_SymlinkIsLeaf ==
  last.op = "HashPath" =>
    /\ ( /\ last.path \in DOMAIN fs
         /\ fs[last.path].type = "symlink"
         /\ ~excludedPath(engine, last.path, FALSE) )
       => /\ last.err = ""
          /\ last.res = Result(Blake3Sum(fs[last.path].data), 0)
    /\ \A n \in Names :
         ( /\ HashedDir
           /\ IncludedNames(engine, fs, last.path) = {n}
           /\ fs[Join(last.path, n)].type = "symlink" )
         => /\ last.err = ""
            /\ last.res =
                 Result(Blake3Sum(Blake3Sum(fs[Join(last.path, n)].data)), 0)
    /\ \A s \in C3_LinksOut :
         \A g \in TargetVariants(fs, fs[s].data) :
           hashPath(engine, g, Quiet, last.path, {}) = LastOut

\* HashPath returned for a symlink, not excluded, whose target is a
\* directory.
C3_Witness ==
  /\ last.op = "HashPath"
  /\ last.path \in C3_LinksOut
  /\ ~excludedPath(engine, last.path, FALSE)
  /\ fs[last.path].data \in DOMAIN fs
  /\ fs[fs[last.path].data].type = "dir"
  /\ last.res = Result(Blake3Sum(fs[last.path].data), 0)

----------------------------------------------------------------------------
(* C4                                                                      *)

\* The entries below root that the engine's patterns exclude.
ExcludedEntries(e, f, root) ==
  {x \in DOMAIN f :
     /\ Under(x, root)
     /\ excludedEntry(e, Dir(x), Base(x), f[x].type = "dir")}

\* The filesystems that agree with f except in the content of the entry at
\* x: other bytes in a file, another text in a link, one more file in a
\* directory.
ContentVariants(f, x) ==
  IF f[x].type \in {"file", "symlink"}
  THEN {[f EXCEPT ![x].data = t] : t \in Texts}
  ELSE IF f[x].type = "dir"
  THEN {(Join(x, n) :> Node("file", t)) @@ f :
          n \in {m \in Names : Join(x, m) \notin DOMAIN f}, t \in Texts}
  ELSE {f}

\* C4: the root digest and size do not depend on excluded entries: the
\* result is the same with any excluded entry removed or its content
\* changed, and a directory all of whose entries are excluded has the
\* result of an empty directory, the hash of no bytes and size 0.
C4_ExcludedEntriesInvisible ==
  (last.op = "HashPath" /\ last.path \in DOMAIN fs) =>
    /\ \A x \in ExcludedEntries(engine, fs, last.path) :
         \A g \in {WithoutTree(fs, x)} \cup ContentVariants(fs, x) :
           hashPath(engine, g, Quiet, last.path, {}) = LastOut
    /\ ( /\ HashedDir
         /\ \E n \in Names : Join(last.path, n) \in DOMAIN fs
         /\ \A n \in Names :
              Join(last.path, n) \in DOMAIN fs =>
                excludedEntry(engine, last.path, n,
                              fs[Join(last.path, n)].type = "dir") )
       => /\ last.err = ""
          /\ last.res = EmptyResult

\* A directory was hashed that holds an excluded file next to an entry
\* that takes part in the digest.
C4_Witness ==
  /\ HashedDir
  /\ last.err = ""
  /\ IncludedNames(engine, fs, last.path) # {}
  /\ \E x \in ExcludedEntries(engine, fs, last.path) :
       /\ Dir(x) = last.path
       /\ fs[x].type = "file"

----------------------------------------------------------------------------
(* C5                                                                      *)

\* C5: two hashed trees with equal root digests have equal total sizes.
C5_EqualDigestsEqualSizes ==
  (last.op = "Compare" /\ last.err = "" /\ last.res.Hash = last.resB.Hash)
    => last.res.Size = last.resB.Size

----------------------------------------------------------------------------
(* C6                                                                      *)

\* The tree at root r as seen from r: each entry's path relative to r with
\* its type and its content or link text.
RelTree(f, r) ==
  {<<Rel(r, p), f[p]>> : p \in {q \in DOMAIN f : q = r \/ Under(q, r)}}

\* C6: with the same exclusion patterns, two roots at different locations
\* whose trees are identical relative to their roots get the same digest
\* and size, and Compare reports no differences.
C6_RelocatedTreesEqual ==
  ( /\ last.op = "Compare"
    /\ last.err = ""
    /\ last.path \in DOMAIN fs
    /\ last.pathB \in DOMAIN fs
    /\ last.path # last.pathB
    /\ RelTree(fs, last.path) = RelTree(fs, last.pathB) )
  => /\ last.res = last.resB
     /\ last.msgs = <<Message(last.res, last.res)>>

----------------------------------------------------------------------------
(* C7                                                                      *)

\* The engine as its constructor returned it: NewEngine and
\* NewEngineWithWorkers return an engine without a root, and
\* NewEngineWithExclusions one with the root it was given.
AsConstructed(e) ==
  IF e.matcher.kind = "nil" THEN [e EXCEPT !.rootPath = <<>>] ELSE e

\* C7: HashPath(p) returns what it returns on the engine as constructed,
\* whatever was hashed with the engine before.
C7_NoStateBetweenCalls ==
  last.op = "HashPath" =>
    LastOut = EngineHashPath(AsConstructed(engine), fs, Quiet, last.path).out

----------------------------------------------------------------------------
(* C8                                                                      *)

\* The paths a walk from root visits: root if it is not excluded, and the
\* entries of every visited directory that take part in its digest.
RECURSIVE Walked(_, _, _, _)
Walked(e, f, paths, depth) ==
  IF depth = 0 THEN paths
  ELSE Walked(e, f,
              paths \cup UNION {{Join(d, n) : n \in IncludedNames(e, f, d)} :
                                  d \in {p \in paths : f[p].type = "dir"}},
              depth - 1)

WalkedFrom(e, f, root) ==
  IF root \in DOMAIN f /\ ~excludedPath(e, root, f[root].type = "dir")
  THEN Walked(e, f, {root}, Cardinality(DOMAIN f))
  ELSE {}

\* An operation of the walk from root fails: the root does not exist, or
\* the fault is on a visited path and is of a kind of operation the walk
\* performs there (lstat of the root, of a directory and of a file; the
\* listing of a directory, the open of a file, the readlink of a link; the
\* read of a file).
OperationFails(e, f, root, fault) ==
  \/ root \notin DOMAIN f
  \/ /\ fault.path \in WalkedFrom(e, f, root)
     /\ \/ /\ fault.kind = "stat"
           /\ fault.path = root \/ f[fault.path].type \in {"dir", "file"}
        \/ /\ fault.kind = "io"
           /\ f[fault.path].type \in {"dir", "file", "symlink"}
        \/ /\ fault.kind = "read"
           /\ f[fault.path].type = "file"

\* The engine CompareWithExclusions hashes root with.
C8_CompareEngine(patterns, root) ==
  [(IF Len(patterns) > 0 THEN NewEngineWithExclusions(0, patterns, root)
    ELSE NewEngine) EXCEPT !.rootPath = root]

\* C8: when an lstat, a directory listing, an open, a read or a readlink
\* fails on a non-excluded path of the tree, HashPath returns an error and
\* the zero Result, never a digest of part of the tree, and
\* CompareWithExclusions returns an error and no strings, whichever side
\* the failure is on.
C8_FailureAborts ==
  /\ last.op = "HashPath" =>
       /\ last.err # "" => last.res = ZeroResult
       /\ OperationFails(engine, fs, last.path, last.fault) => last.err # ""
  /\ last.op = "Compare" =>
       /\ last.err # "" => last.msgs = <<>>
       /\ ( \/ OperationFails(C8_CompareEngine(last.patterns, last.path),
                              fs, last.path, last.fault)
            \/ OperationFails(C8_CompareEngine(last.patterns, last.pathB),
                              fs, last.pathB, last.fault) )
          => last.err # ""

\* The read of one file of a hashed directory failed while another entry
\* of the directory could be hashed.
C8_Witness ==
  /\ HashedDir
  /\ last.fault.kind = "read"
  /\ Dir(last.fault.path) = last.path
  /\ Base(last.fault.path) \in IncludedNames(engine, fs, last.path)
  /\ \E n \in IncludedNames(engine, fs, last.path) :
       /\ n # Base(last.fault.path)
       /\ hashPath(engine, fs, Quiet, Join(last.path, n), {}).err = ""
  /\ last.err = "failed to read file"
  /\ last.res = ZeroResult

----------------------------------------------------------------------------
(* C9                                                                      *)

\* The relative path from root to path begins with the segment "..".
BeginsWithParentSegment(root, path) ==
  Split(Rel(root, path))[1] = <<".", ".">>

\* C9: a regular file is rejected as outside the root iff its path
\* relative to the root begins with a ".." segment; every other regular
\* file is hashed, whatever its name.
C9_RejectedIffParentSegment ==
  ( /\ last.op = "HashPath"
    /\ last.path \in DOMAIN fs
    /\ fs[last.path].type = "file"
    /\ ~excludedPath(engine, last.path, FALSE) )
  => IF BeginsWithParentSegment(engine.rootPath, last.path)
     THEN last.err = "path outside allowed directory"
     ELSE /\ last.err = ""
          /\ last.res = Result(Blake3Sum(fs[last.path].data),
                               Len(fs[last.path].data))

----------------------------------------------------------------------------
(* C10                                                                     *)

\* The bytes that were written to the hash whose digest is hash.
BytesHashed(hash) == SubSeq(hash, 2, Len(hash) - 1)

\* C10: when the hash of a regular file succeeds, the size returned is the
\* number of bytes read and hashed; a file that yields fewer bytes than its
\* metadata reported (truncated between the stat and the read) gives an
\* I/O error and no result.
C10_SizeIsBytesRead ==
  ( /\ last.op = "HashPath"
    /\ last.path \in DOMAIN fs
    /\ fs[last.path].type = "file"
    /\ ~excludedPath(engine, last.path, FALSE) )
  => /\ last.err = "" =>
          /\ Blake3Sum(BytesHashed(last.res.Hash)) = last.res.Hash
          /\ last.res.Size = Len(BytesHashed(last.res.Hash))
     /\ (last.fault.kind = "trunc" /\ last.fault.path = last.path)
          => last.err # ""

----------------------------------------------------------------------------
(* C11                                                                     *)

\* The lists that hold the elements of list seq in any order.
Reorderings(seq) ==
  {[i \in 1..Len(seq) |-> seq[f[i]]] :
     f \in {g \in [1..Len(seq) -> 1..Len(seq)] :
              \A i, j \in 1..Len(seq) : g[i] = g[j] => i = j}}

----------------------------------------------------------------------------
(* C12                                                                     *)

\* The last segment of a path.
FinalSegment(path) == Split(path)[Len(Split(path))]

\* C12: with the patterns "*.log" and "!important.log", Match returns
\* false for every non-directory path whose final segment is important.log
\* and true for every non-directory path whose final segment is other.log,
\* at any depth and whatever the directories above are called.
C12_LogExample ==
  (last.op = "Match" /\ last.patterns = LogPatterns /\ ~last.isDir) =>
    /\ FinalSegment(last.path) = importantLog => ~last.ret
    /\ FinalSegment(last.path) = otherLog => last.ret

----------------------------------------------------------------------------
(* C13                                                                     *)

\* The regular files below root whose path relative to root a negation
\* pattern of the engine matches.
NegatedFiles(e, f, root) ==
  {x \in DOMAIN f :
     /\ Under(x, root)
     /\ f[x].type = "file"
     /\ \E i \in 1..Len(e.matcher.patterns) :
          /\ e.matcher.patterns[i].isNegation
          /\ PatternMatch(e.matcher.patterns[i], Split(Rel(root, x)), FALSE)}

\* C13: a file whose path relative to the root is matched by a negation
\* pattern is included: its digest contributes to the root result of
\* HashPath, so the root digest changes when the file's bytes change,
\* whatever exclusion patterns match the file or the directories above it.
C13_NegatedFileIncluded ==
  ( /\ last.op = "HashPath"
    /\ last.err = ""
    /\ last.path \in DOMAIN fs
    /\ engine.rootPath = last.path )
  => \A x \in NegatedFiles(engine, fs, last.path) :
       \A g \in ContentVariants(fs, x) \ {fs} :
         hashPath(engine, g, Quiet, last.path, {}).res.Hash # last.res.Hash

----------------------------------------------------------------------------
(* C14                                                                     *)

\* The names of the children of the hashed directory that are excluded and
\* not special.
C14_ExcludedNames ==
  {n \in Names :
     /\ Join(last.path, n) \in DOMAIN fs
     /\ fs[Join(last.path, n)].type # "pipe"
     /\ n \notin IncludedNames(engine, fs, last.path)}

\* The digests of all children that are not special, in ascending name
\* order, an excluded child standing with the digest of the empty result.
C14_WithPlaceholders ==
  LET kids == Ascending(IncludedNames(engine, fs, last.path)
                        \cup C14_ExcludedNames)
  IN [i \in 1..Len(kids) |->
        IF kids[i] \in C14_ExcludedNames THEN Ok(EmptyResult)
        ELSE hashPath(engine, fs, Quiet, Join(last.path, kids[i]), {})]

\* A directory with an excluded child was hashed without error.
C14_Call ==
  /\ HashedDir
  /\ last.err = ""
  /\ C14_ExcludedNames # {}

\* C14 as stated: an excluded child contributes the empty result (the hash
\* of no bytes, size 0) to the digest combination of its parent.
C14_PlaceholderContributed ==
  C14_Call => last.res.Hash = Blake3Sum(C1_Digests(C14_WithPlaceholders, 1))

\* C14: an excluded child is left out of the digest combination of its
\* parent, which covers the other children only and differs from the
\* combination with a placeholder; the empty result is what HashPath
\* returns for a path that is itself excluded.
C14_ExcludedChildOmitted ==
  /\ C14_Call =>
       /\ last.res.Hash = Blake3Sum(C1_Digests(C1_ChildOuts, 1))
       /\ last.res.Hash # Blake3Sum(C1_Digests(C14_WithPlaceholders, 1))
  /\ ( /\ last.op = "HashPath"
       /\ last.path \in DOMAIN fs
       /\ excludedPath(engine, last.path, fs[last.path].type = "dir") )
     => /\ last.err = ""
        /\ last.res = EmptyResult

\* A directory was hashed that holds an excluded directory next to a child
\* that takes part in the digest.
C14_Witness ==
  /\ C14_Call
  /\ IncludedNames(engine, fs, last.path) # {}
  /\ \E n \in C14_ExcludedNames : fs[Join(last.path, n)].type = "dir"

----------------------------------------------------------------------------
(* C15                                                                     *)

\* What the patterns of one source say about a path: "include" when one of
\* its negations matches, "exclude" when only exclusions match, else "none".
SourceVerdict(lines, path, isDir) ==
  LET pm == NewPatternMatcher(lines)
      hits == {i \in 1..Len(pm) : PatternMatch(pm[i], Split(path), isDir)}
  IN IF \E i \in hits : pm[i].isNegation THEN "include"
     ELSE IF hits # {} THEN "exclude"
     ELSE "none"

\* The first verdict of a list that is not "none".
RECURSIVE FirstVerdict(_)
FirstVerdict(verdicts) ==
  IF verdicts = <<>> THEN "none"
  ELSE IF Head(verdicts) # "none" THEN Head(verdicts)
  ELSE FirstVerdict(Tail(verdicts))

\* The pattern lines of the sources of the last NewMatcher call, from the
\* highest priority to the lowest: custom ignore file, command line,
\* .mtcignore, .gitignore.
C15_Sources ==
  LET lines(p) == IF p \in DOMAIN last.files THEN last.files[p].lines
                  ELSE <<>>
  IN << IF last.customIgnoreFile # <<>> THEN lines(last.customIgnoreFile)
        ELSE <<>>,
        last.patterns,
        IF last.loadIgnoreFile THEN lines(Join(RootDir, mtcignore)) ELSE <<>>,
        IF last.loadIgnoreFile THEN lines(Join(RootDir, gitignore)) ELSE <<>> >>

\* C15: when the pattern sources disagree about a path, the verdict of the
\* source of highest priority that has one decides, in the order custom
\* ignore file, command-line patterns, .mtcignore, .gitignore: the path is
\* excluded exactly when that verdict is an exclusion.
C15_HigherPriorityDecides ==
  (last.op = "NewMatcher" /\ last.err = "") =>
    LET verdicts == [i \in 1..4 |->
                       SourceVerdict(C15_Sources[i], last.path, last.isDir)]
    IN last.ret = (FirstVerdict(verdicts) = "exclude")

----------------------------------------------------------------------------
(* C16                                                                     *)

\* C16: a comparison in which both hashes produce a digest returns no
\* error, and a comparison that returns no error returns exactly one
\* string: the no-differences sentinel when the two root digests are equal,
\* whatever the sizes, and otherwise one mismatch message that carries both
\* digests and both sizes.
C16_OneStringNoError ==
  last.op = "Compare" =>
    /\ (last.res.Hash # <<>> /\ last.resB.Hash # <<>>) => last.err = ""
    /\ last.err = "" =>
         /\ Len(last.msgs) = 1
         /\ IF last.res.Hash = last.resB.Hash
            THEN last.msgs[1].text = noDifferencesMsg
            ELSE last.msgs[1] =
                   [text |-> "Root mismatch",
                    hashA |-> last.res.Hash, sizeA |-> last.res.Size,
                    hashB |-> last.resB.Hash, sizeB |-> last.resB.Size]

\* A comparison of two trees with equal digests and different sizes has
\* returned the sentinel.
C16_Witness ==
  /\ last.op = "Compare"
  /\ last.err = ""
  /\ last.res.Hash = last.resB.Hash
  /\ last.res.Size # last.resB.Size
  /\ last.msgs = <<[NoMessage EXCEPT !.text = noDifferencesMsg]>>

----------------------------------------------------------------------------
(* C17                                                                     *)

\* C17: on an unchanged tree, a HashPath call repeated on the same engine
\* returns what the call before it returned, and a comparison of an
\* existing path with itself returns no error and the no-differences
\* sentinel as its one string.
C17_RepeatableSelfEqual ==
  /\ last.op = "HashPath" =>
       EngineHashPath(engine, fs, Quiet, last.path).out = LastOut
  /\ (last.op = "Compare" /\ last.pathB = last.path /\ last.path \in DOMAIN fs)
       => /\ last.err = ""
          /\ last.msgs = <<[NoMessage EXCEPT !.text = noDifferencesMsg]>>

----------------------------------------------------------------------------
(* C18                                                                     *)

\* The last call is matchSegments with a pattern of more than one segment
\* that ends in "**" and does not begin with it.
C18_Call ==
  /\ last.op = "patternMatch"
  /\ Len(Split(last.pattern)) > 1
  /\ Split(last.pattern)[Len(Split(last.pattern))] = globDoubleStar
  /\ Head(Split(last.pattern)) # globDoubleStar

\* The segments of the last call's pattern before its final "**".
C18_Prefix == SubSeq(Split(last.pattern), 1, Len(Split(last.pattern)) - 1)

\* The prefix segments match the path segments one by one from offset i.
C18_PrefixAt(i) ==
  /\ i + Len(C18_Prefix) <= Len(last.pathSegments)
  /\ \A j \in 1..Len(C18_Prefix) :
       matchSegment(last.pathSegments[i + j], C18_Prefix[j])

----------------------------------------------------------------------------
(* C19                                                                     *)

\* The places of s that remain possible after one more pattern byte c,
\* places being the numbers of bytes of s used so far: "*" goes on to any
\* place not before, "?" uses one byte, any other byte uses one equal byte.
GlobStep(places, c, s) ==
  IF c = "*" THEN {j \in 0..Len(s) : \E i \in places : i <= j}
  ELSE {i + 1 : i \in {k \in places : k < Len(s) /\ (c = "?" \/ s[k + 1] = c)}}

RECURSIVE GlobPlaces(_, _, _)
GlobPlaces(pattern, s, places) ==
  IF pattern = <<>> THEN places
  ELSE GlobPlaces(Tail(pattern), s, GlobStep(places, Head(pattern), s))

\* s matches pattern under glob semantics: the whole of the pattern uses
\* the whole of s.
GlobMatches(s, pattern) == Len(s) \in GlobPlaces(pattern, s, {0})

\* C19: matchGlob(s, pattern) returns true exactly when s matches pattern
\* under glob semantics, where "*" matches any run of bytes, the empty run
\* too, "?" matches exactly one byte and any other byte matches itself.
C19_GlobSemantics ==
  last.op = "matchGlob" => (last.ret = GlobMatches(last.s, last.pattern))

\* matchGlob has matched "aba" against "*a", where "*" has to take "ab"
\* although the byte after it is found at the start of the string already.
C19_Witness ==
  /\ last.op = "matchGlob"
  /\ last.s = <<"a", "b", "a">>
  /\ last.pattern = <<"*", "a">>
  /\ last.ret

----------------------------------------------------------------------------
(* C20                                                                     *)

\* The place of pattern x in the list seq (0 when it is not in it).
IndexOf(seq, x) ==
  IF \E i \in 1..Len(seq) : seq[i] = x
  THEN CHOOSE i \in 1..Len(seq) : seq[i] = x
  ELSE 0

\* C20: in the list FindIgnoreFiles returns, the patterns of an ignore file
\* of a directory closer to the working directory come before the patterns
\* of the files of directories further up, and within one directory the
\* patterns of .mtcignore come before those of .gitignore.
C20_CloserFilesFirst ==
  last.op = "FindIgnoreFiles" =>
    \A p, q \in IgnoreFilePaths :
      LET i == IndexOf(last.ret, PatternOf(p))
          j == IndexOf(last.ret, PatternOf(q))
      IN (i # 0 /\ j # 0) =>
           /\ Under(Dir(p), Dir(q)) => i < j
           /\ (Dir(p) = Dir(q) /\ Base(p) = mtcignore /\ Base(q) = gitignore)
                => i < j

----------------------------------------------------------------------------
(* C21                                                                     *)

\* The file at path p of the last call's files is missing.
C21_Missing(p) == p \notin DOMAIN last.files

\* The file at path p of the last call's files exists and cannot be read.
C21_Unreadable(p) == p \in DOMAIN last.files /\ ~last.files[p].readable

\* No source of the last NewMatcher call yields a pattern.
C21_NoPatterns ==
  LET patternsAt(p) == IF p \in DOMAIN last.files /\ last.files[p].readable
                       THEN scanPatterns(last.files[p].lines)
                       ELSE <<>>
  IN /\ last.patterns = <<>>
     /\ last.customIgnoreFile # <<>> => patternsAt(last.customIgnoreFile) = <<>>
     /\ last.loadIgnoreFile =>
          /\ patternsAt(Join(RootDir, mtcignore)) = <<>>
          /\ patternsAt(Join(RootDir, gitignore)) = <<>>

\* C21: NewMatcher fails exactly when a custom ignore file is given and is
\* missing or unreadable, or the ignore files are to be loaded and a
\* .mtcignore or .gitignore that exists cannot be read; a missing
\* .mtcignore or .gitignore is no failure, and a matcher made of no
\* pattern at all matches no path.
C21_FailsIffUnreadable ==
  last.op = "NewMatcher" =>
    /\ (last.err # "") =
         ( \/ /\ last.customIgnoreFile # <<>>
              /\ \/ C21_Missing(last.customIgnoreFile)
                 \/ C21_Unreadable(last.customIgnoreFile)
           \/ /\ last.loadIgnoreFile
              /\ \/ C21_Unreadable(Join(RootDir, mtcignore))
                 \/ C21_Unreadable(Join(RootDir, gitignore)) )
    /\ (last.err = "" /\ C21_NoPatterns) => ~last.ret

----------------------------------------------------------------------------
(* C22                                                                     *)

\* Path p has a ".." segment: a reference to a parent directory.
HasParentSegment(p) ==
  \E i \in 1..Len(Split(p)) : Split(p)[i] = <<".", ".">>

\* C22: LoadIgnoreFile rejects every file name that contains ".." or a
\* separator, LoadCustomIgnoreFile rejects every path that has a ".."
\* segment, both before any file is opened; and LoadCustomIgnoreFile
\* accepts every path without ".." segments of a file that exists.
C22_TraversalRejected ==
  /\ ( /\ last.op = "LoadIgnoreFile"
       /\ ContainsDotDot(last.path) \/ Contains(last.path, "/") )
     => (last.err = "invalid filename" /\ last.opened = {})
  /\ (last.op = "LoadCustomIgnoreFile" /\ HasParentSegment(last.path))
     => (last.err = "invalid file path" /\ last.opened = {})
  /\ ( /\ last.op = "LoadCustomIgnoreFile"
       /\ ~HasParentSegment(last.path)
       /\ Abs(last.wd, last.path) \in DOMAIN last.files
       /\ last.files[Abs(last.wd, last.path)].readable )
     => (last.err = "" /\ last.ret = <<nameA>>)

----------------------------------------------------------------------------
(* C23                                                                     *)

\* The paths of the hashPath invocations on a call's stack.
HashPathsOnStack(call) ==
  {call.stack[i].path :
     i \in {j \in 1..Len(call.stack) : call.stack[j].fn = "hashPath"}}

\* C23: at every point of a top-level HashPath call its visited set holds
\* exactly the paths of the hashPath invocations on the call's stack, so
\* every path is removed again when its invocation exits, and the set is
\* empty when HashPath has returned.
C23_VisitedIsCallStack ==
  \A c \in Calls :
    /\ run.calls[c].visited = HashPathsOnStack(run.calls[c])
    /\ run.calls[c].pc = "done" => run.calls[c].visited = {}

\* A call that went into a subdirectory and has returned an error.
C23_Witness ==
  \E c \in Calls :
    /\ run.calls[c].pc = "done"
    /\ run.calls[c].ret.err # ""
    /\ Cardinality(run.calls[c].taken) >= 2

----------------------------------------------------------------------------
(* C24                                                                     *)

\* The calls that are in hashFile between the send on e.sem and the
\* deferred receive, and those of them that have the file open.
SlotHolders == {c \in Calls : run.calls[c].pc \in {"open", "read"}}

FileOpeners == {c \in Calls : run.calls[c].pc = "read"}

\* C24: the pool's capacity is the worker count asked for, or 8 when that
\* is not positive; at any moment at most that many hashFile operations,
\* over all concurrent HashPath calls on the engine, hold a slot and have
\* a file open; the slots taken are those of the operations in progress,
\* so each is released on every exit, and none is taken once every call
\* has returned.
C24_PoolBound ==
  /\ engine.made =>
       \E n \in PoolSizes \cup {0} :
         engine.maxWorkers = IF n < 1 THEN 8 ELSE n
  /\ Cardinality(SlotHolders) <= engine.maxWorkers
  /\ FileOpeners \subseteq SlotHolders
  /\ run.sem = Cardinality(SlotHolders)
  /\ (\A c \in Calls : run.calls[c].pc \in {"idle", "done"}) => run.sem = 0

\* Every slot is taken and another call waits for one.
C24_Witness ==
  /\ engine.made
  /\ Cardinality(SlotHolders) = engine.maxWorkers
  /\ \E c \in Calls : run.calls[c].pc = "acquire"

----------------------------------------------------------------------------
(* C25                                                                     *)

\* The hashFile invocation of a call, if it has one, is the innermost: no
\* hashPath, hashDir or second hashFile runs above it.
HashFileInnermost(call) ==
  \A i \in 1..Len(call.stack) :
    call.stack[i].fn = "hashFile" => i = Len(call.stack)

\* A call holds a slot only inside its hashFile invocation, and holds none
\* while it waits for one.
SlotOnlyInHashFile(c) ==
  /\ HashFileInnermost(run.calls[c])
  /\ c \in SlotHolders =>
       /\ run.calls[c].stack # <<>>
       /\ top(run.calls[c]).fn = "hashFile"
  /\ run.calls[c].pc = "acquire" => c \notin SlotHolders

\* C25: a hash operation never waits for a slot while it holds one and
\* never holds a slot across the recursion into a directory; so, when
\* every operation on a file completes, every call that waits for a slot
\* gets it and every call that has begun returns.
C25_NoDeadlock ==
  /\ [](\A c \in Calls : SlotOnlyInHashFile(c))
  /\ \A c \in Calls :
       (run.calls[c].pc = "acquire") ~> (run.calls[c].pc = "open")
  /\ \A c \in Calls :
       (run.calls[c].pc # "idle") ~> (run.calls[c].pc = "done")

\* A call waits at the send while the only slot is taken by a call that
\* has gone two directories deep.
C25_Witness ==
  /\ engine.made
  /\ run.sem = engine.maxWorkers
  /\ \E c \in Calls, d \in Calls :
       /\ run.calls[c].pc = "acquire"
       /\ d \in SlotHolders
       /\ Len(run.calls[d].stack) >= 5

----------------------------------------------------------------------------
(* C26                                                                     *)

\* The branch the claim gives a path: no entry, a stat error; an entry
\* that the patterns exclude, Excluded; then by the entry's type.
BranchOf(p) ==
  IF p \notin DOMAIN fs THEN "StatError"
  ELSE IF excludedPath(engine, p, fs[p].type = "dir") THEN "Excluded"
  ELSE IF fs[p].type = "symlink" THEN "Leaf-Symlink"
  ELSE IF fs[p].type = "dir" THEN "Directory"
  ELSE "Leaf-File"

\* C26: every path hashPath has processed took one branch, the one that
\* lstat, the exclusion test, the symlink test and the directory test give
\* in this order; an excluded path, whatever its type, is neither opened
\* nor read and gives the empty result, and a path of no entry gives a stat
\* error even when its name matches an exclusion pattern.
C26_BranchOrder ==
  \A c \in Calls :
    /\ \A x \in run.calls[c].taken :
         /\ x[2] = BranchOf(x[1])
         /\ \A y \in run.calls[c].taken : y[1] = x[1] => y = x
         /\ x[2] = "Excluded" =>
              /\ x[1] \notin run.calls[c].read
              /\ x[1] \notin run.calls[c].opened
    /\ run.calls[c].pc = "done" =>
         /\ <<run.calls[c].path, "Excluded">> \in run.calls[c].taken =>
              run.calls[c].ret = Ok(EmptyResult)
         /\ run.calls[c].path \notin DOMAIN fs =>
              /\ run.calls[c].ret = Failed("failed to stat path")
              /\ run.calls[c].read = {}

\* A call has returned for a path of no entry whose name an exclusion
\* pattern of the engine matches.
C26_Witness ==
  \E c \in Calls :
    /\ run.calls[c].pc = "done"
    /\ run.calls[c].path \notin DOMAIN fs
    /\ MatcherMatch(engine.matcher, Base(run.calls[c].path), FALSE)
    /\ run.calls[c].ret.err = "failed to stat path"

----------------------------------------------------------------------------
(* C27                                                                     *)

\* C27: a named pipe, socket or device file is never given to os.Open and
\* never read, and no call returns a digest for it, whether it is an entry
\* of a directory that is hashed or the path HashPath is called on.
C27_SpecialNeverOpened ==
  \A c \in Calls :
    /\ \A p \in run.calls[c].opened \cup run.calls[c].read :
         fs[p].type # "pipe"
    /\ \A x \in run.calls[c].taken :
         (x[1] \in DOMAIN fs /\ fs[x[1]].type = "pipe") =>
           x[2] \notin {"Leaf-File", "Leaf-Symlink", "Directory"}

----------------------------------------------------------------------------
(* C28                                                                     *)

\* C28: every HashPath call that has begun returns, with a result or an
\* error, whatever the tree holds (links to themselves, to each other, to
\* their ancestors), and when it has returned its visited set is empty and
\* it holds no slot of the pool.
C28_Terminates ==
  \A c \in Calls :
    (run.calls[c].pc # "idle") ~>
      (/\ run.calls[c].pc = "done"
       /\ run.calls[c].visited = {}
       /\ run.calls[c].stack = <<>>
       /\ c \notin SlotHolders)

----------------------------------------------------------------------------
(* C29                                                                     *)

cycleError == "circular symlink detected"

\* Every hashPath invocation but the outermost is on a directory that is
\* an entry of the directory its caller, a hashDir invocation, lists.
NestedOnSubdirectory(call) ==
  \A i \in 2..Len(call.stack) :
    call.stack[i].fn = "hashPath" =>
      /\ call.stack[i - 1].fn = "hashDir"
      /\ Dir(call.stack[i].path) = call.stack[i - 1].path
      /\ call.stack[i].path # call.stack[i - 1].path
      /\ fs[call.stack[i].path].type = "dir"

----------------------------------------------------------------------------
(* C30                                                                     *)

\* Where the entry at x is once the entry at p is renamed to q.
MovedTo(x, p, q) ==
  IF x = p THEN q
  ELSE IF Under(x, p) THEN q \o SubSeq(x, Len(p) + 1, Len(x))
  ELSE x

\* The filesystem after rename(p, q): the entry and what is below it.
Renamed(f, p, q) ==
  [y \in {MovedTo(x, p, q) : x \in DOMAIN f} |->
     f[CHOOSE x \in DOMAIN f : MovedTo(x, p, q) = y]]

\* The new name n of the entry at p stands among the names of its
\* siblings where the old name stood, byte-wise.
KeepsOrder(f, p, n) ==
  \A m \in Names :
    (Join(Dir(p), m) \in DOMAIN f /\ Join(Dir(p), m) # p) =>
      /\ m # n
      /\ StrLess(Base(p), m) <=> StrLess(n, m)

\* The renames the claim speaks of: of an entry that takes part in the
\* digest of the last call's path, to a new name that keeps its place
\* among its siblings and is not excluded either.
RenamesKept(e, f, root) ==
  {<<p, n>> \in (WalkedFrom(e, f, root) \ {root}) \X Names :
     /\ n # Base(p)
     /\ KeepsOrder(f, p, n)
     /\ n \in IncludedNames(e, Renamed(f, p, Join(Dir(p), n)), Dir(p))}

\* C30: the digest of a directory is made of the digests of its included
\* children in the order of their names, and of nothing else: when an
\* included entry is renamed so that it keeps its place among its siblings
\* and stays included, HashPath of the root, which is the engine's root,
\* returns the same digest and the same size as before.
C30_RenameKeepsDigest ==
  (last.op = "HashPath" /\ last.err = "" /\ engine.rootPath = last.path) =>
    \A r \in RenamesKept(engine, fs, last.path) :
      hashPath(engine, Renamed(fs, r[1], Join(Dir(r[1]), r[2])), Quiet,
               last.path, {}) = LastOut

====
